---------------------------- MODULE Spec2Model ----------------------------
(***************************************************************************)
(* State-machine model of the SQLWarriors ETL / benchmark harness.         *)
(*                                                                         *)
(*   SpecPg    : etl/loader_postgres_csv.py  (PostgresCSVLoader)           *)
(*   SpecMongo : etl/loader_mongodb_csv.py   (MongoCSVLoader)              *)
(*   SpecBench : benchmarks/query_performance.py (QueryBenchmark)          *)
(*   SpecRank, SpecTrend, SpecBrand : the three benchmark queries, each    *)
(*               store's version applied to the same loaded data           *)
(*   SpecDedup : etl/transformer.py (DataTransformer.deduplicate)          *)
(*   SpecStorage : analysis/generate_dashboard.py (measure_storage_size)   *)
(*   SpecDash  : analysis/generate_dashboard.py (run_full_benchmark)       *)
(*   SpecChart : analysis/generate_dashboard.py (generate_visualization)   *)
(*                                                                         *)
(* Every caller of the loaders (the __main__ blocks, generate_dashboard)   *)
(* constructs a fresh loader object for each run, so a run starts from the *)
(* constructor's state while the database contents persist across runs.    *)
(***************************************************************************)
EXTENDS Integers, Sequences, FiniteSets, TLC

VARIABLES
    \* ---- the data directory (read by both loaders) ----
    csv,            \* file name -> Missing, or the asin cells of its rows, in order
    \* ---- PostgreSQL server ----
    fkEnforced,     \* whether the pre-created schema declares the ASIN foreign keys
    pgDb,           \* table name -> committed rows (each row: its asin)
    pgPending,      \* table name -> rows copied in the open transaction
    pgTxFailed,     \* the open transaction is in the aborted state
    \* ---- PostgresCSVLoader ----
    pgConn,         \* self.conn: "none" | "open" | "closed"
    pgPc,           \* position inside run_full_load
    pgRun,          \* number of run_full_load calls started
    pgRowcount,     \* cursor.rowcount of the last copy_expert
    pgInflight,     \* exception in flight inside load_products' try block
    pgExc,          \* exception caught by / propagating out of run_full_load
    pgCounts,       \* the *_count locals of run_full_load
    pgStats,        \* the dictionary returned by verify_data_integrity
    pgResult,       \* what run_full_load returned
    pgLog,          \* calls made by the current run, in order
    \* ---- MongoDB server ----
    mgColl,         \* the products collection: its documents in insertion order
    mgIndexes,      \* names of the indexes of the products collection
    mgFaults,       \* driver/server faults injected so far
    \* ---- MongoCSVLoader ----
    price_history_dict,        \* self.price_history_dict: asin -> entries
    sales_rank_history_dict,   \* self.sales_rank_history_dict: asin -> entries
    documents_to_insert,       \* the batch buffer of load_products
    processed_count,           \* documents built by load_products
    mgRow,          \* next products.csv row of load_products' loop
    mgPc,           \* position inside run_full_load
    mgRun,          \* number of run_full_load calls started
    mgExc,          \* exception propagating out of run_full_load
    mgLog,          \* calls made by the current run, in order
    \* ---- QueryBenchmark ----
    postgres_conn,  \* self.postgres_conn: "none" | "open" | "closed"
    bqTxAborted,    \* the transaction of postgres_conn is in the aborted state
    mongo_db,       \* self.mongo_db: "none" | "open"
    iterations,     \* the iterations argument of run_all_benchmarks
    bqPc,           \* position inside run_all_benchmarks
    bqQuery,        \* which of the three benchmark_query calls is running
    postgres_times, \* the local list postgres_times of benchmark_query
    mongodb_times,  \* the local list mongodb_times of benchmark_query
    results,        \* the local list results of run_all_benchmarks
    bqExc,          \* exception propagating out of run_all_benchmarks
    bqReturned,     \* what run_all_benchmarks returned
    bqCalls,        \* query -> store -> calls of the query function so far
    bqFailed,       \* the <<query, store>> pairs whose query function has raised
    \* ---- the analytical queries of QueryBenchmark, as functions of the data ----
    warehouse,      \* the data both stores hold (products and history rows)
    today,          \* CURRENT_DATE / datetime.now() of the query
    queryArgs,      \* the arguments of the query function
    postgres_results,   \* what the postgres_query_* function returned
    mongodb_results,    \* what the mongodb_query_* function returned
    \* ---- DataTransformer.deduplicate ----
    data,           \* the argument data: a list of records
    uniqueRecords,  \* the list unique that deduplicate returned
    uniqueAgain,    \* what deduplicate returned for its own output
    \* ---- BenchmarkDashboard.measure_storage_size ----
    storeEmpty,     \* store -> whether the store holds no data
    msPc,           \* position inside measure_storage_size
    msResults,      \* the local dictionary results
    msConn,         \* the local conn: "none" | "open" | "closed"
    msExc,          \* exception propagating out of measure_storage_size
    msLog,          \* the measurements made, in order: <<store, outcome>>
    \* ---- BenchmarkDashboard.run_full_benchmark ----
    skip_load,      \* self.skip_load
    self_results,   \* self.results: load_performance, query_performance, storage_size
    chart,          \* the figure saved by generate_visualization
    saved,          \* the results written by save_results
    dbPc,           \* position inside run_full_benchmark
    dbExc,          \* exception propagating out of run_full_benchmark
    dbLog           \* the steps run, in order: step, outcome, whether an error was logged

pgVars == <<fkEnforced, pgDb, pgPending, pgTxFailed, pgConn, pgPc, pgRun,
            pgRowcount, pgInflight, pgExc, pgCounts, pgStats, pgResult, pgLog>>

mgVars == <<mgColl, mgIndexes, mgFaults, price_history_dict, sales_rank_history_dict,
            documents_to_insert, processed_count, mgRow, mgPc, mgRun, mgExc,
            mgLog>>

bqVars == <<postgres_conn, bqTxAborted, mongo_db, iterations, bqPc, bqQuery,
            postgres_times, mongodb_times, results, bqExc, bqReturned, bqCalls,
            bqFailed>>

qVars == <<warehouse, today, queryArgs, postgres_results, mongodb_results>>

tVars == <<data, uniqueRecords, uniqueAgain>>

msVars == <<storeEmpty, msPc, msResults, msConn, msExc, msLog>>

dbVars == <<skip_load, self_results, chart, saved, dbPc, dbExc, dbLog>>

vars == <<csv, pgVars, mgVars, bqVars, qVars, tVars, msVars, dbVars>>

\* what the PostgreSQL loader leaves alone besides its own variables, what
\* the MongoDB loader leaves alone besides its own, and what the benchmark does
pgFrame == <<csv, mgVars, bqVars, qVars, tVars, msVars, dbVars>>
mgFrame == <<csv, pgVars, bqVars, qVars, tVars, msVars, dbVars>>
bqFrame == <<csv, pgVars, mgVars, qVars, tVars, msVars, dbVars>>
qFrame == <<csv, pgVars, mgVars, bqVars, tVars, msVars, dbVars>>
tFrame == <<csv, pgVars, mgVars, bqVars, qVars, msVars, dbVars>>
msFrame == <<csv, pgVars, mgVars, bqVars, qVars, tVars, dbVars>>
dbFrame == <<csv, pgVars, mgVars, bqVars, qVars, tVars, msVars>>

-----------------------------------------------------------------------------
(* Bounds *)

MaxRows == 2      \* rows in products.csv / price_history.csv
MaxAuxRows == 1   \* rows in sales_rank_history.csv / product_metrics.csv
MaxRuns == 2      \* run_full_load calls per behaviour

-----------------------------------------------------------------------------
(* Generic helpers *)

\* a file that does not exist (no row is the cell "<missing>")
Missing == << <<"<missing>">> >>

\* a variable, local or dictionary not assigned yet; IsSet tells
Unset == <<>>
IsSet(x) == DOMAIN x # {}

SeqsUpTo(S, n) == UNION {[1..k -> S] : k \in 0..n}

Range(s) == {s[i] : i \in DOMAIN s}

\* the events of log that are in set E, in order
RECURSIVE Project(_, _)
Project(log, E) ==
    IF log = <<>> THEN <<>>
    ELSE IF Head(log) \in E THEN <<Head(log)>> \o Project(Tail(log), E)
         ELSE Project(Tail(log), E)

IsPrefix(s, t) == Len(s) <= Len(t) /\ \A i \in DOMAIN s : s[i] = t[i]

-----------------------------------------------------------------------------
(* The data directory *)

PRODUCTS_CSV == "products.csv"
PRICE_CSV == "price_history.csv"
RANK_CSV == "sales_rank_history.csv"
METRICS_CSV == "product_metrics.csv"
FileNames == {PRODUCTS_CSV, PRICE_CSV, RANK_CSV, METRICS_CSV}

\* A cell is the sequence of its characters; the empty cell is <<>>.
PgAsins == {<<"A">>, <<"B">>}

FileExists(f) == csv[f] # Missing

-----------------------------------------------------------------------------
(* PostgreSQL server: tables, COPY, COMMIT, ROLLBACK *)

PgTables == {"products", "price_history", "sales_rank_history", "product_metrics"}
HistoryTables == PgTables \ {"products"}

EmptyTables == [t \in PgTables |-> <<>>]

\* rows the open transaction sees
Visible(t) == pgDb[t] \o pgPending[t]

NoDuplicates(s) == \A i, j \in DOMAIN s : i # j => s[i] # s[j]

\* COPY is all-or-nothing: it is rejected when a row breaks a constraint of the
\* target table (unique ASIN on products; ASIN foreign key on the other tables).
CopyAccepted(t, rows) ==
    /\ ~pgTxFailed
    /\ IF t = "products"
       THEN NoDuplicates(Visible("products") \o rows)
       ELSE fkEnforced => Range(rows) \subseteq Range(Visible("products"))

\* cursor.copy_expert: on success the rows are pending and rowcount is their
\* number; on failure nothing is copied, the transaction is aborted, rowcount is -1
CopyExpert(t, rows) ==
    IF CopyAccepted(t, rows)
    THEN /\ pgPending' = [pgPending EXCEPT ![t] = @ \o rows]
         /\ pgTxFailed' = pgTxFailed
         /\ pgRowcount' = Len(rows)
    ELSE /\ pgPending' = pgPending
         /\ pgTxFailed' = TRUE
         /\ pgRowcount' = -1

\* a loader that leaves the copied rows pending until the end of the run
Commit_deferred == UNCHANGED <<pgDb, pgPending, pgTxFailed>>

\* conn.commit(): COMMIT of an aborted transaction is answered with ROLLBACK
Commit ==
    /\ pgDb' = IF pgTxFailed THEN pgDb ELSE [t \in PgTables |-> pgDb[t] \o pgPending[t]]
    /\ pgPending' = EmptyTables
    /\ pgTxFailed' = FALSE

\* conn.rollback()
Rollback ==
    /\ pgDb' = pgDb
    /\ pgPending' = EmptyTables
    /\ pgTxFailed' = FALSE


-----------------------------------------------------------------------------
(* PostgresCSVLoader *)


Logged(e) == pgLog' = Append(pgLog, e)

\* PostgresCSVLoader() followed by the entry into run_full_load
PostgresCSVLoader_init ==
    /\ pgPc = "idle"
    /\ pgRun < MaxRuns
    /\ pgRun' = pgRun + 1
    /\ pgConn' = "none"
    /\ pgRowcount' = -1
    /\ pgInflight' = "none"
    /\ pgExc' = "none"
    /\ pgCounts' = Unset
    /\ pgStats' = Unset
    /\ pgResult' = Unset
    /\ pgLog' = <<>>
    /\ pgPc' = "connect"
    /\ UNCHANGED <<pgFrame, fkEnforced, pgDb, pgPending, pgTxFailed>>

\* connect(): psycopg2.connect succeeds, or its error is logged and re-raised
PostgresCSVLoader_connect ==
    /\ pgPc = "connect"
    /\ \E ok \in BOOLEAN :
         IF ok
         THEN /\ pgConn' = "open"
              /\ pgExc' = pgExc
              /\ Logged("connect")
              /\ pgPc' = "load_products"
         ELSE /\ pgConn' = pgConn
              /\ pgExc' = "OperationalError"
              /\ Logged("connect_failed")
              /\ pgPc' = "except"
    /\ UNCHANGED <<pgFrame, fkEnforced, pgDb, pgPending, pgTxFailed, pgRun,
                   pgRowcount, pgInflight, pgCounts, pgStats, pgResult>>

\* load_products up to the end of its try block: the existence check raises
\* before the try; a failing copy_expert leaves its exception in flight
PostgresCSVLoader_load_products ==
    /\ pgPc = "load_products"
    /\ IF ~FileExists(PRODUCTS_CSV)
       THEN /\ pgExc' = "FileNotFoundError"
            /\ Logged("load_products")
            /\ pgPc' = "except"
            /\ UNCHANGED <<pgPending, pgTxFailed, pgRowcount, pgInflight>>
       ELSE /\ CopyExpert("products", csv[PRODUCTS_CSV])
            /\ IF CopyAccepted("products", csv[PRODUCTS_CSV])
               THEN /\ pgInflight' = "none"
                    /\ pgLog' = pgLog \o <<"load_products", "copy:products">>
               ELSE /\ pgInflight' = "IntegrityError"
                    /\ pgLog' = pgLog \o <<"load_products", "copy_failed:products">>
            /\ pgExc' = pgExc
            /\ pgPc' = "load_products_finally"
    /\ UNCHANGED <<pgFrame, fkEnforced, pgDb, pgConn, pgRun, pgCounts, pgStats, pgResult>>

\* whether the exception in flight survives load_products' finally block:
\* the block ends in "return rows_inserted", which discards it
FinallyPropagates(inflight) == FALSE

\* the finally block of load_products: commit, then return cursor.rowcount
PostgresCSVLoader_load_products_finally ==
    /\ pgPc = "load_products_finally"
    /\ Commit
    /\ Logged("commit:products")
    /\ pgInflight' = "none"
    /\ IF pgInflight # "none" /\ FinallyPropagates(pgInflight)
       THEN /\ pgExc' = pgInflight
            /\ pgCounts' = pgCounts
            /\ pgPc' = "except"
       ELSE /\ pgExc' = pgExc
            /\ pgCounts' = ("products" :> pgRowcount) @@ pgCounts
            /\ pgPc' = "load_price_history"
    /\ UNCHANGED <<pgFrame, fkEnforced, pgConn, pgRun, pgRowcount, pgStats, pgResult>>

\* the part shared by load_price_history, load_sales_rank_history and
\* load_product_metrics once the file exists: copy_expert inside the cursor block
LoadCopy(step, t, file, commitPc) ==
    /\ CopyExpert(t, csv[file])
    /\ IF CopyAccepted(t, csv[file])
       THEN /\ pgLog' = pgLog \o <<step, "copy:" \o t>>
            /\ pgExc' = pgExc
            /\ pgPc' = commitPc
       ELSE /\ pgLog' = pgLog \o <<step, "copy_failed:" \o t>>
            /\ pgExc' = "IntegrityError"
            /\ pgPc' = "except"

\* rows_inserted = cursor.rowcount; self.conn.commit(); return rows_inserted
LoadCommit(t, nextPc) ==
    /\ Commit
    /\ Logged("commit:" \o t)
    /\ pgCounts' = (t :> pgRowcount) @@ pgCounts
    /\ pgPc' = nextPc
    /\ UNCHANGED <<pgFrame, fkEnforced, pgConn, pgRun, pgRowcount, pgInflight, pgExc,
                   pgStats, pgResult>>

\* load_price_history with the missing file treated like the optional one
PostgresCSVLoader_load_price_history_optional ==
    /\ pgPc = "load_price_history"
    /\ IF ~FileExists(PRICE_CSV)
       THEN /\ pgCounts' = ("price_history" :> 0) @@ pgCounts
            /\ Logged("load_price_history")
            /\ pgExc' = pgExc
            /\ pgPc' = "load_sales_rank_history"
            /\ UNCHANGED <<pgPending, pgTxFailed, pgRowcount>>
       ELSE /\ LoadCopy("load_price_history", "price_history", PRICE_CSV,
                        "price_history_commit")
            /\ pgCounts' = pgCounts
    /\ UNCHANGED <<pgFrame, fkEnforced, pgDb, pgConn, pgRun, pgInflight, pgStats, pgResult>>

PostgresCSVLoader_load_price_history ==
    /\ pgPc = "load_price_history"
    /\ IF ~FileExists(PRICE_CSV)
       THEN /\ pgExc' = "FileNotFoundError"
            /\ Logged("load_price_history")
            /\ pgPc' = "except"
            /\ UNCHANGED <<pgPending, pgTxFailed, pgRowcount>>
       ELSE LoadCopy("load_price_history", "price_history", PRICE_CSV, "price_history_commit")
    /\ UNCHANGED <<pgFrame, fkEnforced, pgDb, pgConn, pgRun, pgInflight, pgCounts,
                   pgStats, pgResult>>

PostgresCSVLoader_load_price_history_commit ==
    /\ pgPc = "price_history_commit"
    /\ LoadCommit("price_history", "load_sales_rank_history")

PostgresCSVLoader_load_sales_rank_history ==
    /\ pgPc = "load_sales_rank_history"
    /\ IF ~FileExists(RANK_CSV)
       THEN /\ pgExc' = "FileNotFoundError"
            /\ Logged("load_sales_rank_history")
            /\ pgPc' = "except"
            /\ UNCHANGED <<pgPending, pgTxFailed, pgRowcount>>
       ELSE LoadCopy("load_sales_rank_history", "sales_rank_history", RANK_CSV,
                     "sales_rank_history_commit")
    /\ UNCHANGED <<pgFrame, fkEnforced, pgDb, pgConn, pgRun, pgInflight, pgCounts,
                   pgStats, pgResult>>

PostgresCSVLoader_load_sales_rank_history_commit ==
    /\ pgPc = "sales_rank_history_commit"
    /\ LoadCommit("sales_rank_history", "load_product_metrics")

\* load_product_metrics with the missing file treated like a required one
PostgresCSVLoader_load_product_metrics_required ==
    /\ pgPc = "load_product_metrics"
    /\ IF ~FileExists(METRICS_CSV)
       THEN /\ pgCounts' = pgCounts
            /\ Logged("load_product_metrics")
            /\ pgExc' = "FileNotFoundError"
            /\ pgPc' = "except"
            /\ UNCHANGED <<pgPending, pgTxFailed, pgRowcount>>
       ELSE /\ LoadCopy("load_product_metrics", "product_metrics", METRICS_CSV,
                        "product_metrics_commit")
            /\ pgCounts' = pgCounts
    /\ UNCHANGED <<pgFrame, fkEnforced, pgDb, pgConn, pgRun, pgInflight, pgStats, pgResult>>

\* a missing product_metrics.csv is logged and skipped: return 0
PostgresCSVLoader_load_product_metrics ==
    /\ pgPc = "load_product_metrics"
    /\ IF ~FileExists(METRICS_CSV)
       THEN /\ pgCounts' = ("product_metrics" :> 0) @@ pgCounts
            /\ Logged("load_product_metrics")
            /\ pgExc' = pgExc
            /\ pgPc' = "verify_data_integrity"
            /\ UNCHANGED <<pgPending, pgTxFailed, pgRowcount>>
       ELSE /\ LoadCopy("load_product_metrics", "product_metrics", METRICS_CSV,
                        "product_metrics_commit")
            /\ pgCounts' = pgCounts
    /\ UNCHANGED <<pgFrame, fkEnforced, pgDb, pgConn, pgRun, pgInflight, pgStats, pgResult>>

PostgresCSVLoader_load_product_metrics_commit ==
    /\ pgPc = "product_metrics_commit"
    /\ LoadCommit("product_metrics", "verify_data_integrity")


\* SELECT COUNT(*) FROM t
CountRows(t) == Len(Visible(t))

\* t LEFT JOIN products p ON t.asin = p.asin: one joined row per matching
\* pair, and one row with p NULL (written 0) for a row of t without a match
LeftJoinProducts(t) ==
    LET L == Visible(t)
        P == Visible("products")
    IN  {<<i, j>> \in (DOMAIN L) \X (DOMAIN P) : L[i] = P[j]}
        \cup {<<i, 0>> : i \in {k \in DOMAIN L : \A j \in DOMAIN P : L[k] # P[j]}}

\* the orphan query written with COUNT(DISTINCT t.asin)
OrphanCount_distinct(t) ==
    Cardinality({Visible(t)[r[1]] : r \in {x \in LeftJoinProducts(t) : x[2] = 0}})

\* SELECT COUNT(*) FROM t LEFT JOIN products p ON ... WHERE p.asin IS NULL
OrphanCount(t) == Cardinality({r \in LeftJoinProducts(t) : r[2] = 0})

\* SELECT MAX(n) FROM (SELECT asin, COUNT(*) AS n FROM t GROUP BY asin),
\* with the code's "if ... else 0" for the empty table
MaxRecordsPerProduct(t) ==
    LET L == Visible(t)
        N(a) == Cardinality({i \in DOMAIN L : L[i] = a})
    IN  IF L = <<>> THEN 0
        ELSE CHOOSE n \in 1..Len(L) :
               /\ \E a \in Range(L) : N(a) = n
               /\ \A a \in Range(L) : N(a) <= n

\* the stats dictionary (the two AVG figures, floats used only in the log
\* lines, are left out)
IntegrityStats ==
    [products_count |-> CountRows("products"),
     price_history_count |-> CountRows("price_history"),
     sales_rank_history_count |-> CountRows("sales_rank_history"),
     product_metrics_count |-> CountRows("product_metrics"),
     orphaned_price_history |-> OrphanCount("price_history"),
     orphaned_sales_rank_history |-> OrphanCount("sales_rank_history"),
     orphaned_product_metrics |-> OrphanCount("product_metrics"),
     max_price_records_per_product |-> MaxRecordsPerProduct("price_history"),
     max_sales_rank_records_per_product |-> MaxRecordsPerProduct("sales_rank_history")]

\* what verify_data_integrity does about orphaned rows: a warning line per
\* table with a non-zero count, then "return stats"
OrphansRaise(stats) == FALSE

PostgresCSVLoader_verify_data_integrity ==
    /\ pgPc = "verify_data_integrity"
    /\ pgLog' = pgLog \o <<"verify_data_integrity">>
              \o (IF IntegrityStats.orphaned_price_history > 0
                  THEN <<"warning:orphaned_price_history">> ELSE <<>>)
              \o (IF IntegrityStats.orphaned_sales_rank_history > 0
                  THEN <<"warning:orphaned_sales_rank_history">> ELSE <<>>)
              \o (IF IntegrityStats.orphaned_product_metrics > 0
                  THEN <<"warning:orphaned_product_metrics">> ELSE <<>>)
    /\ IF OrphansRaise(IntegrityStats)
       THEN /\ pgExc' = "IntegrityError"
            /\ pgStats' = pgStats
            /\ pgPc' = "except"
       ELSE /\ pgExc' = pgExc
            /\ pgStats' = IntegrityStats
            /\ pgPc' = "return"
    /\ UNCHANGED <<pgFrame, fkEnforced, pgDb, pgPending, pgTxFailed, pgConn, pgRun,
                   pgRowcount, pgInflight, pgCounts, pgResult>>

\* the return statement of run_full_load's try block
PostgresCSVLoader_run_full_load_return ==
    /\ pgPc = "return"
    /\ pgResult' = [products_count |-> pgCounts["products"],
                    price_history_count |-> pgCounts["price_history"],
                    sales_rank_history_count |-> pgCounts["sales_rank_history"],
                    product_metrics_count |-> pgCounts["product_metrics"],
                    stats |-> pgStats]
    /\ pgPc' = "finally"
    /\ UNCHANGED <<pgFrame, fkEnforced, pgDb, pgPending, pgTxFailed, pgConn, pgRun,
                   pgRowcount, pgInflight, pgExc, pgCounts, pgStats, pgLog>>

\* except Exception: log, roll back when a connection object exists, re-raise
PostgresCSVLoader_run_full_load_except ==
    /\ pgPc = "except"
    /\ IF pgConn # "none"
       THEN /\ Rollback
            /\ Logged("rollback")
       ELSE UNCHANGED <<pgDb, pgPending, pgTxFailed, pgLog>>
    /\ pgPc' = "finally"
    /\ UNCHANGED <<pgFrame, fkEnforced, pgConn, pgRun, pgRowcount, pgInflight, pgExc,
                   pgCounts, pgStats, pgResult>>

\* finally: self.close(); closing ends the session, which discards whatever
\* its transaction had not committed
PostgresCSVLoader_close ==
    /\ pgPc = "finally"
    /\ IF pgConn # "none"
       THEN /\ pgConn' = "closed"
            /\ Logged("close")
            /\ pgPending' = EmptyTables
            /\ pgTxFailed' = FALSE
       ELSE UNCHANGED <<pgConn, pgLog, pgPending, pgTxFailed>>
    /\ pgPc' = "idle"
    /\ UNCHANGED <<pgFrame, fkEnforced, pgDb, pgRun, pgRowcount, pgInflight, pgExc,
                   pgCounts, pgStats, pgResult>>

\* how the last run ended, once it has ended
PgReturned == pgPc = "idle" /\ pgRun > 0 /\ pgExc = "none"
PgRaised == pgPc = "idle" /\ pgRun > 0 /\ pgExc # "none"

-----------------------------------------------------------------------------
(* pandas / str conversions of the MongoDB loader *)

NaN == <<>>

\* str(row['asin']): an empty cell is read as NaN, and str(nan) is 'nan'
Str(cell) == IF cell = NaN THEN <<"n", "a", "n">> ELSE cell

RECURSIVE LStrip(_)
LStrip(s) == IF s # <<>> /\ Head(s) = " " THEN LStrip(Tail(s)) ELSE s

RECURSIVE RStrip(_)
RStrip(s) == IF s # <<>> /\ s[Len(s)] = " " THEN RStrip(SubSeq(s, 1, Len(s) - 1)) ELSE s

\* str.strip()
Strip(s) == RStrip(LStrip(s))

\* pd.isna of a str object
IsNa(asin) == FALSE

\* the row is skipped by "if pd.isna(asin) or asin == ''"
Skipped(cell) == IsNa(Strip(Str(cell))) \/ Strip(Str(cell)) = <<>>

\* a lookup that returns the entries of some key, whatever key is asked for
DictGet_any(d, k) == IF DOMAIN d # {} THEN d[CHOOSE x \in DOMAIN d : TRUE] ELSE <<>>

\* dict.get(k, [])
DictGet(d, k) == IF k \in DOMAIN d THEN d[k] ELSE <<>>

\* an aggregation that puts the newest entry first
DictAppend_front(d, k, e) ==
    IF k \in DOMAIN d THEN [d EXCEPT ![k] = <<e>> \o @] ELSE (k :> <<e>>) @@ d

\* defaultdict(list)[k].append(e)
DictAppend(d, k, e) ==
    IF k \in DOMAIN d THEN [d EXCEPT ![k] = Append(@, e)] ELSE (k :> <<e>>) @@ d

\* the row loop of load_price_history / load_sales_rank_history from row i on:
\* the entry of a row is identified by the row's number. Reading the file in
\* chunks of chunk_size changes nothing: the rows arrive in file order.
RECURSIVE Aggregate(_, _, _)
Aggregate(d, rows, i) ==
    IF i > Len(rows) THEN d
    ELSE IF Skipped(rows[i]) THEN Aggregate(d, rows, i + 1)
         ELSE Aggregate(DictAppend(d, Strip(Str(rows[i])), i), rows, i + 1)

-----------------------------------------------------------------------------
(* MongoDB server: the products collection *)

BatchSize == 2     \* batch_size of load_products (1000 in the source)
MaxFaults == 1     \* driver/server faults per behaviour

IndexNames == <<"asin", "price_history.date", "sales_rank_history.date", "brand",
                "category">>

UniqueAsin == "asin" \in mgIndexes

\* a server that stores every document, unique index or not
ServerInsert_unchecked(coll, docs, unique) == [coll |-> coll \o docs, errors |-> 0]

\* the server applying an unordered insert: every document is tried, one
\* whose asin the unique index already holds is a write error
RECURSIVE ServerInsert(_, _, _)
ServerInsert(coll, docs, unique) ==
    IF docs = <<>> THEN [coll |-> coll, errors |-> 0]
    ELSE LET d == Head(docs)
             dup == unique /\ \E i \in DOMAIN coll : coll[i].asin = d.asin
             rest == ServerInsert(IF dup THEN coll ELSE Append(coll, d), Tail(docs), unique)
         IN  [coll |-> rest.coll, errors |-> rest.errors + (IF dup THEN 1 ELSE 0)]

\* how a call to the server can go: answered, or lost before / after the
\* server applied it
CallOutcomes == {"ok"} \cup (IF mgFaults < MaxFaults THEN {"lost_before", "lost_after"} ELSE {})

\* collection.insert_many(docs, ordered=False) with outcome o: the collection
\* afterwards, and whether the call raised
InsertMany(docs, o) ==
    LET r == ServerInsert(mgColl, docs, UniqueAsin)
    IN  [coll |-> IF o = "lost_before" THEN mgColl ELSE r.coll,
         raised |-> o # "ok" \/ r.errors > 0]

HasDuplicateAsins(coll) == \E i, j \in DOMAIN coll : i # j /\ coll[i].asin = coll[j].asin

\* collection.create_index(name, ...) with outcome o: whether the index
\* exists afterwards without an error. Creating an index that exists is a
\* no-op; building the unique index fails on duplicate keys.
CreateIndexOk(name, o) ==
    /\ o = "ok"
    /\ name \in mgIndexes \/ ~(name = "asin" /\ HasDuplicateAsins(mgColl))

-----------------------------------------------------------------------------
(* MongoCSVLoader *)

Ev(op, name, rows, ok) == [op |-> op, name |-> name, rows |-> rows, ok |-> ok]

MgLogged(es) == mgLog' = mgLog \o es

\* MongoCSVLoader(...) followed by the entry into run_full_load
MongoCSVLoader_init ==
    /\ mgPc = "idle"
    /\ mgRun < MaxRuns
    /\ mgRun' = mgRun + 1
    /\ price_history_dict' = <<>>
    /\ sales_rank_history_dict' = <<>>
    /\ documents_to_insert' = <<>>
    /\ processed_count' = 0
    /\ mgRow' = 1
    /\ mgExc' = "none"
    /\ mgLog' = <<>>
    /\ mgPc' = "load_price_history"
    /\ UNCHANGED <<mgFrame, mgColl, mgIndexes, mgFaults>>

\* a run_full_load that goes from load_price_history straight to load_products
MongoCSVLoader_load_price_history_then_products ==
    /\ mgPc = "load_price_history"
    /\ MgLogged(<<Ev("load_price_history", "", <<>>, FileExists(PRICE_CSV))>>)
    /\ IF ~FileExists(PRICE_CSV)
       THEN /\ mgExc' = "FileNotFoundError"
            /\ mgPc' = "except"
            /\ UNCHANGED price_history_dict
       ELSE /\ price_history_dict' = Aggregate(price_history_dict, csv[PRICE_CSV], 1)
            /\ mgExc' = mgExc
            /\ mgPc' = "load_products"
    /\ UNCHANGED <<mgFrame, mgColl, mgIndexes, mgFaults, sales_rank_history_dict,
                   documents_to_insert, processed_count, mgRow, mgRun>>

\* load_price_history: open() raises when the file is missing
MongoCSVLoader_load_price_history ==
    /\ mgPc = "load_price_history"
    /\ MgLogged(<<Ev("load_price_history", "", <<>>, FileExists(PRICE_CSV))>>)
    /\ IF ~FileExists(PRICE_CSV)
       THEN /\ mgExc' = "FileNotFoundError"
            /\ mgPc' = "except"
            /\ UNCHANGED price_history_dict
       ELSE /\ price_history_dict' = Aggregate(price_history_dict, csv[PRICE_CSV], 1)
            /\ mgExc' = mgExc
            /\ mgPc' = "load_sales_rank_history"
    /\ UNCHANGED <<mgFrame, mgColl, mgIndexes, mgFaults, sales_rank_history_dict,
                   documents_to_insert, processed_count, mgRow, mgRun>>

MongoCSVLoader_load_sales_rank_history ==
    /\ mgPc = "load_sales_rank_history"
    /\ MgLogged(<<Ev("load_sales_rank_history", "", <<>>, FileExists(RANK_CSV))>>)
    /\ IF ~FileExists(RANK_CSV)
       THEN /\ mgExc' = "FileNotFoundError"
            /\ mgPc' = "except"
            /\ UNCHANGED sales_rank_history_dict
       ELSE /\ sales_rank_history_dict' = Aggregate(sales_rank_history_dict, csv[RANK_CSV], 1)
            /\ mgExc' = mgExc
            /\ mgPc' = "load_products"
    /\ UNCHANGED <<mgFrame, mgColl, mgIndexes, mgFaults, price_history_dict,
                   documents_to_insert, processed_count, mgRow, mgRun>>

\* a load_products that treats a missing products.csv as nothing to load
MongoCSVLoader_load_products_optional ==
    /\ mgPc = "load_products"
    /\ MgLogged(<<Ev("load_products", "", <<>>, FileExists(PRODUCTS_CSV))>>)
    /\ mgExc' = mgExc
    /\ mgPc' = IF FileExists(PRODUCTS_CSV) THEN "load_products_rows" ELSE "load_products_return"
    /\ documents_to_insert' = <<>>
    /\ processed_count' = 0
    /\ mgRow' = 1
    /\ UNCHANGED <<mgFrame, mgColl, mgIndexes, mgFaults, price_history_dict,
                   sales_rank_history_dict, mgRun>>

\* load_products up to the row loop: open() raises when the file is missing
MongoCSVLoader_load_products ==
    /\ mgPc = "load_products"
    /\ MgLogged(<<Ev("load_products", "", <<>>, FileExists(PRODUCTS_CSV))>>)
    /\ IF ~FileExists(PRODUCTS_CSV)
       THEN /\ mgExc' = "FileNotFoundError"
            /\ mgPc' = "except"
       ELSE /\ mgExc' = mgExc
            /\ mgPc' = "load_products_rows"
    /\ documents_to_insert' = <<>>
    /\ processed_count' = 0
    /\ mgRow' = 1
    /\ UNCHANGED <<mgFrame, mgColl, mgIndexes, mgFaults, price_history_dict,
                   sales_rank_history_dict, mgRun>>

\* the document built from products.csv row i
ProductDoc(i) ==
    LET asin == Strip(Str(csv[PRODUCTS_CSV][i]))
    IN  [asin |-> asin, row |-> i, created_at |-> mgRun,
         price_history |-> DictGet(price_history_dict, asin),
         sales_rank_history |-> DictGet(sales_rank_history_dict, asin)]

RowsOf(docs) == [k \in DOMAIN docs |-> docs[k].row]

\* a loader that forgets to empty the buffer after a batch
BufferAfterBatch_kept(batch) == batch

\* the buffer after a full batch was inserted: documents_to_insert.clear()
BufferAfterBatch(batch) == <<>>

\* a loader whose except branch leaves the failed batch in the buffer
BufferAfterFailedBatch_kept(batch) == batch

\* the buffer after insert_many raised for a full batch: the except branch
\* clears it as well
BufferAfterFailedBatch(batch) == <<>>

\* the buffer after the final batch, inserted or not: neither branch of that
\* try statement touches it
BufferAfterFinalBatch(batch) == batch

\* a loader that sends the buffer only once it exceeds batch_size
BatchFull_late(batch) == Len(batch) > BatchSize

\* len(documents_to_insert) >= batch_size
BatchFull(batch) == Len(batch) >= BatchSize

\* one iteration of the row loop of load_products
MongoCSVLoader_load_products_row ==
    /\ mgPc = "load_products_rows"
    /\ mgRow <= Len(csv[PRODUCTS_CSV])
    /\ mgRow' = mgRow + 1
    /\ IF Skipped(csv[PRODUCTS_CSV][mgRow])
       THEN UNCHANGED <<documents_to_insert, processed_count, mgColl, mgFaults, mgLog>>
       ELSE LET batch == Append(documents_to_insert, ProductDoc(mgRow))
            IN  /\ processed_count' = processed_count + 1
                /\ IF BatchFull(batch)
                   THEN \E o \in CallOutcomes :
                          LET r == InsertMany(batch, o)
                          IN  /\ mgColl' = r.coll
                              /\ mgFaults' = mgFaults + (IF o = "ok" THEN 0 ELSE 1)
                              /\ IF r.raised
                                 THEN /\ MgLogged(<<Ev("insert_many", "batch", RowsOf(batch), FALSE),
                                                    Ev("logger.error", "batch", RowsOf(batch), FALSE)>>)
                                      /\ documents_to_insert' = BufferAfterFailedBatch(batch)
                                 ELSE /\ MgLogged(<<Ev("insert_many", "batch", RowsOf(batch), TRUE)>>)
                                      /\ documents_to_insert' = BufferAfterBatch(batch)
                   ELSE /\ documents_to_insert' = batch
                        /\ UNCHANGED <<mgColl, mgFaults, mgLog>>
    /\ UNCHANGED <<mgFrame, mgIndexes, price_history_dict, sales_rank_history_dict,
                   mgPc, mgRun, mgExc>>

\* after the loop: "if documents_to_insert:" insert the remaining documents
MongoCSVLoader_load_products_final ==
    /\ mgPc = "load_products_rows"
    /\ mgRow > Len(csv[PRODUCTS_CSV])
    /\ IF documents_to_insert # <<>>
       THEN \E o \in CallOutcomes :
              LET r == InsertMany(documents_to_insert, o)
              IN  /\ mgColl' = r.coll
                  /\ mgFaults' = mgFaults + (IF o = "ok" THEN 0 ELSE 1)
                  /\ IF r.raised
                     THEN MgLogged(<<Ev("insert_many", "final", RowsOf(documents_to_insert), FALSE),
                                     Ev("logger.error", "final", RowsOf(documents_to_insert), FALSE)>>)
                     ELSE MgLogged(<<Ev("insert_many", "final", RowsOf(documents_to_insert), TRUE)>>)
       ELSE UNCHANGED <<mgColl, mgFaults, mgLog>>
    /\ documents_to_insert' = BufferAfterFinalBatch(documents_to_insert)
    /\ mgPc' = "load_products_return"
    /\ UNCHANGED <<mgFrame, mgIndexes, price_history_dict, sales_rank_history_dict,
                   processed_count, mgRow, mgRun, mgExc>>

\* a loader that keeps the aggregated history after the load
DictClear_kept(d) == d

\* dict.clear()
DictClear(d) == <<>>

\* the end of load_products: both dictionaries are cleared; the locals
\* (the buffer among them) end with the call
MongoCSVLoader_load_products_return ==
    /\ mgPc = "load_products_return"
    /\ price_history_dict' = DictClear(price_history_dict)
    /\ sales_rank_history_dict' = DictClear(sales_rank_history_dict)
    /\ documents_to_insert' = <<>>
    /\ MgLogged(<<Ev("load_products_return", "", <<>>, TRUE)>>)
    /\ mgPc' = "create_indexes"
    /\ UNCHANGED <<mgFrame, mgColl, mgIndexes, mgFaults, processed_count, mgRow,
                   mgRun, mgExc>>

\* a create_indexes with one try statement around the five calls: the first
\* failure is a warning and ends the function
RECURSIVE CreateIndexEvents_stop(_, _)
CreateIndexEvents_stop(i, o) ==
    IF i > Len(IndexNames) THEN <<>>
    ELSE IF CreateIndexOk(IndexNames[i], o[i])
         THEN <<Ev("create_index", IndexNames[i], <<>>, TRUE)>> \o CreateIndexEvents_stop(i + 1, o)
         ELSE <<Ev("create_index", IndexNames[i], <<>>, FALSE),
                Ev("logger.warning", IndexNames[i], <<>>, FALSE)>>

\* the log lines of create_indexes' try statements from index i on, under
\* the outcomes o of the five calls: a failure is a warning, the next follows
RECURSIVE CreateIndexEvents(_, _)
CreateIndexEvents(i, o) ==
    IF i > Len(IndexNames) THEN <<>>
    ELSE (IF CreateIndexOk(IndexNames[i], o[i])
          THEN <<Ev("create_index", IndexNames[i], <<>>, TRUE)>>
          ELSE <<Ev("create_index", IndexNames[i], <<>>, FALSE),
                 Ev("logger.warning", IndexNames[i], <<>>, FALSE)>>)
         \o CreateIndexEvents(i + 1, o)

\* outcomes of n successive calls within the fault budget
CallOutcomeSeqs(n) ==
    {o \in [1..n -> {"ok", "lost_before", "lost_after"}] :
        Cardinality({i \in 1..n : o[i] # "ok"}) <= MaxFaults - mgFaults}

\* create_indexes: five create_index calls, each in its own try statement
MongoCSVLoader_create_indexes ==
    /\ mgPc = "create_indexes"
    /\ \E o \in CallOutcomeSeqs(Len(IndexNames)) :
         /\ mgIndexes' = mgIndexes \cup
              {IndexNames[i] : i \in {k \in DOMAIN IndexNames :
                   o[k] # "lost_before" /\ CreateIndexOk(IndexNames[k], "ok")}}
         /\ mgFaults' = mgFaults + Cardinality({i \in DOMAIN IndexNames : o[i] # "ok"})
         /\ MgLogged(CreateIndexEvents(1, o))
    /\ mgPc' = "report"
    /\ UNCHANGED <<mgFrame, mgColl, price_history_dict, sales_rank_history_dict,
                   documents_to_insert, processed_count, mgRow, mgRun, mgExc>>

\* the statistics report that ends the try block (count_documents, then
\* aggregate: a call that fails raises out of the try block), then the
\* normal return
MongoCSVLoader_run_full_load_return ==
    /\ mgPc = "report"
    /\ \E o1, o2 \in CallOutcomes :
         IF o1 # "ok"
         THEN /\ MgLogged(<<Ev("count_documents", "", <<>>, FALSE)>>)
              /\ mgFaults' = mgFaults + 1
              /\ mgExc' = "PyMongoError"
              /\ mgPc' = "except"
         ELSE IF o2 # "ok"
         THEN /\ MgLogged(<<Ev("count_documents", "", <<>>, TRUE),
                            Ev("aggregate", "", <<>>, FALSE)>>)
              /\ mgFaults' = mgFaults + 1
              /\ mgExc' = "PyMongoError"
              /\ mgPc' = "except"
         ELSE /\ MgLogged(<<Ev("count_documents", "", <<>>, TRUE),
                            Ev("aggregate", "", <<>>, TRUE)>>)
              /\ mgFaults' = mgFaults
              /\ mgExc' = mgExc
              /\ mgPc' = "idle"
    /\ UNCHANGED <<mgFrame, mgColl, mgIndexes, price_history_dict,
                   sales_rank_history_dict, documents_to_insert, processed_count,
                   mgRow, mgRun>>

\* except Exception: log and re-raise
MongoCSVLoader_run_full_load_except ==
    /\ mgPc = "except"
    /\ MgLogged(<<Ev("logger.error", "", <<>>, FALSE)>>)
    /\ mgPc' = "idle"
    /\ UNCHANGED <<mgFrame, mgColl, mgIndexes, mgFaults, price_history_dict,
                   sales_rank_history_dict, documents_to_insert, processed_count,
                   mgRow, mgRun, mgExc>>

MgRunEnded == mgPc = "idle" /\ mgRun > 0
MgReturned == MgRunEnded /\ mgExc = "none"
MgRaised == MgRunEnded /\ mgExc # "none"

-----------------------------------------------------------------------------
(* QueryBenchmark: the arithmetic of benchmark_query *)

MaxIterations == 2   \* the iterations argument of run_all_benchmarks

\* float('inf'): a value no measured duration equals
inf == -1

\* the durations time.time() - start can yield, in clock ticks
Elapsed == {0, 1}

\* sum(times): infinite as soon as one summand is
RECURSIVE Sum(_)
Sum(times) ==
    IF times = <<>> THEN 0
    ELSE LET rest == Sum(Tail(times))
         IN  IF Head(times) = inf \/ rest = inf THEN inf ELSE Head(times) + rest

\* a float as the fraction num/den with den > 0; num = inf is float('inf')
Float(num, den) == [num |-> num, den |-> den]
IsInf(x) == x.num = inf

\* a benchmark that reports the first recorded duration
Average_first(times) ==
    IF times = <<>> THEN Float(inf, 1) ELSE Float(times[1], 1)

\* sum(times) / len(times) if times else float('inf')
Average(times) ==
    IF times = <<>> THEN Float(inf, 1) ELSE Float(Sum(times), Len(times))

\* a comparison under which float('inf') is below and above nothing
Less_unordered(x, y) ==
    IF IsInf(x) \/ IsInf(y) THEN FALSE ELSE x.num * y.den < y.num * x.den

\* x < y, x > 0 and x / y (for a finite y > 0) on floats
Less(x, y) ==
    IF IsInf(x) THEN FALSE ELSE IF IsInf(y) THEN TRUE ELSE x.num * y.den < y.num * x.den
Positive(x) == IsInf(x) \/ x.num > 0
Divide(x, y) == IF IsInf(x) THEN Float(inf, 1) ELSE Float(x.num * y.den, x.den * y.num)

\* "Determine winner": faster and speedup from the two averages
Winner(postgres_avg, mongodb_avg) ==
    IF Less(postgres_avg, mongodb_avg)
    THEN [faster |-> "PostgreSQL",
          speedup |-> IF Positive(postgres_avg) THEN Divide(mongodb_avg, postgres_avg)
                      ELSE Float(inf, 1)]
    ELSE IF Less(mongodb_avg, postgres_avg)
    THEN [faster |-> "MongoDB",
          speedup |-> IF Positive(mongodb_avg) THEN Divide(postgres_avg, mongodb_avg)
                      ELSE Float(inf, 1)]
    ELSE [faster |-> "Tie", speedup |-> Float(1, 1)]

\* the dictionary benchmark_query returns (the two *_results_count entries,
\* which depend on the rows the queries return, are left out)
BenchmarkResult(query_name, ptimes, mtimes) ==
    LET w == Winner(Average(ptimes), Average(mtimes))
    IN  [query_name |-> query_name,
         postgres_time |-> Average(ptimes),
         mongodb_time |-> Average(mtimes),
         faster |-> w.faster,
         speedup |-> w.speedup]

-----------------------------------------------------------------------------
(* QueryBenchmark *)

\* the three benchmark_query calls of run_all_benchmarks, in order
QueryNames == <<"Price Trend by Category", "Top Products by Sales Rank Improvement",
                "Brand Analysis">>

Stores == {"postgres", "mongodb"}
NoCalls == [q \in DOMAIN QueryNames |-> [s \in Stores |-> 0]]

\* how a call of a PostgreSQL query function can end: once a statement has
\* failed on the server, every later statement of the transaction is refused
\* (nothing in this class rolls back)
PostgresOutcomes ==
    IF bqTxAborted THEN {"InFailedSqlTransaction"}
    ELSE {"ok", "server_error", "client_error"}

MongoOutcomes == {"ok", "error"}

\* a benchmark whose try statement lets the query's exception through
ExceptCatches_nothing(o) == FALSE

\* "except Exception as e" around a query call catches whatever it raises
ExceptCatches(o) == TRUE

\* benchmark = QueryBenchmark(); benchmark.run_all_benchmarks(iterations)
QueryBenchmark_run_all_benchmarks ==
    /\ bqPc = "idle"
    /\ iterations' \in 0..MaxIterations
    /\ bqPc' = "connect_postgres"
    /\ UNCHANGED <<bqFrame, postgres_conn, bqTxAborted, mongo_db, bqQuery, postgres_times,
                   mongodb_times, results, bqExc, bqReturned, bqCalls, bqFailed>>

\* connect_postgres: logs and re-raises when psycopg2.connect fails
QueryBenchmark_connect_postgres ==
    /\ bqPc = "connect_postgres"
    /\ \E ok \in BOOLEAN :
         IF ok
         THEN /\ postgres_conn' = "open"
              /\ bqPc' = "connect_mongodb"
              /\ bqExc' = bqExc
         ELSE /\ postgres_conn' = postgres_conn
              /\ bqPc' = "except"
              /\ bqExc' = "OperationalError"
    /\ UNCHANGED <<bqFrame, bqTxAborted, mongo_db, iterations, bqQuery, postgres_times,
                   mongodb_times, results, bqReturned, bqCalls, bqFailed>>

\* connect_mongodb, then "results = []" and the entry into the first
\* benchmark_query call
QueryBenchmark_connect_mongodb ==
    /\ bqPc = "connect_mongodb"
    /\ \E ok \in BOOLEAN :
         IF ok
         THEN /\ mongo_db' = "open"
              /\ bqPc' = "benchmark_query"
              /\ bqQuery' = 1
              /\ bqExc' = bqExc
         ELSE /\ bqPc' = "except"
              /\ bqExc' = "PyMongoError"
              /\ UNCHANGED <<mongo_db, bqQuery>>
    /\ results' = <<>>
    /\ postgres_times' = <<>>
    /\ mongodb_times' = <<>>
    /\ UNCHANGED <<bqFrame, postgres_conn, bqTxAborted, iterations, bqReturned,
                   bqCalls, bqFailed>>

\* one iteration of the loop "Benchmark PostgreSQL"
QueryBenchmark_benchmark_query_postgres ==
    /\ bqPc = "benchmark_query"
    /\ Len(postgres_times) < iterations
    /\ bqCalls' = [bqCalls EXCEPT ![bqQuery]["postgres"] = @ + 1]
    /\ \E o \in PostgresOutcomes :
         IF o = "ok"
         THEN /\ \E elapsed \in Elapsed : postgres_times' = Append(postgres_times, elapsed)
              /\ UNCHANGED <<bqTxAborted, bqFailed, bqPc, bqExc>>
         ELSE /\ bqTxAborted' = (bqTxAborted \/ o = "server_error")
              /\ bqFailed' = bqFailed \cup {<<bqQuery, "postgres">>}
              /\ IF ExceptCatches(o)
                 THEN /\ postgres_times' = Append(postgres_times, inf)
                      /\ UNCHANGED <<bqPc, bqExc>>
                 ELSE /\ bqPc' = "except"
                      /\ bqExc' = o
                      /\ UNCHANGED postgres_times
    /\ UNCHANGED <<bqFrame, postgres_conn, mongo_db, iterations, bqQuery, mongodb_times,
                   results, bqReturned>>

\* one iteration of the loop "Benchmark MongoDB"
QueryBenchmark_benchmark_query_mongodb ==
    /\ bqPc = "benchmark_query"
    /\ Len(postgres_times) = iterations
    /\ Len(mongodb_times) < iterations
    /\ bqCalls' = [bqCalls EXCEPT ![bqQuery]["mongodb"] = @ + 1]
    /\ \E o \in MongoOutcomes :
         IF o = "ok"
         THEN /\ \E elapsed \in Elapsed : mongodb_times' = Append(mongodb_times, elapsed)
              /\ UNCHANGED <<bqFailed, bqPc, bqExc>>
         ELSE /\ bqFailed' = bqFailed \cup {<<bqQuery, "mongodb">>}
              /\ IF ExceptCatches(o)
                 THEN /\ mongodb_times' = Append(mongodb_times, inf)
                      /\ UNCHANGED <<bqPc, bqExc>>
                 ELSE /\ bqPc' = "except"
                      /\ bqExc' = o
                      /\ UNCHANGED mongodb_times
    /\ UNCHANGED <<bqFrame, postgres_conn, bqTxAborted, mongo_db, iterations, bqQuery,
                   postgres_times, results, bqReturned>>

\* the rest of benchmark_query (averages, winner, the returned dictionary),
\* results.append(...) and the entry into the next benchmark_query call
QueryBenchmark_benchmark_query_return ==
    /\ bqPc = "benchmark_query"
    /\ Len(postgres_times) = iterations
    /\ Len(mongodb_times) = iterations
    /\ results' = Append(results,
                         BenchmarkResult(QueryNames[bqQuery], postgres_times, mongodb_times))
    /\ postgres_times' = <<>>
    /\ mongodb_times' = <<>>
    /\ IF bqQuery < Len(QueryNames)
       THEN bqQuery' = bqQuery + 1 /\ bqPc' = bqPc
       ELSE bqQuery' = bqQuery /\ bqPc' = "summary"
    /\ UNCHANGED <<bqFrame, postgres_conn, bqTxAborted, mongo_db, iterations, bqExc,
                   bqReturned, bqCalls, bqFailed>>

\* the summary lines and "return results"
QueryBenchmark_run_all_benchmarks_return ==
    /\ bqPc = "summary"
    /\ bqReturned' = results
    /\ bqPc' = "finally"
    /\ UNCHANGED <<bqFrame, postgres_conn, bqTxAborted, mongo_db, iterations, bqQuery,
                   postgres_times, mongodb_times, results, bqExc, bqCalls, bqFailed>>

\* except Exception: log and re-raise
QueryBenchmark_run_all_benchmarks_except ==
    /\ bqPc = "except"
    /\ bqPc' = "finally"
    /\ UNCHANGED <<bqFrame, postgres_conn, bqTxAborted, mongo_db, iterations, bqQuery,
                   postgres_times, mongodb_times, results, bqExc, bqReturned, bqCalls,
                   bqFailed>>

\* finally: close_postgres closes the connection if there is one
QueryBenchmark_close_postgres ==
    /\ bqPc = "finally"
    /\ postgres_conn' = IF postgres_conn = "open" THEN "closed" ELSE postgres_conn
    /\ bqTxAborted' = FALSE
    /\ bqPc' = "done"
    /\ UNCHANGED <<bqFrame, mongo_db, iterations, bqQuery, postgres_times, mongodb_times,
                   results, bqExc, bqReturned, bqCalls, bqFailed>>

BqReturned == bqPc = "done" /\ bqExc = "none"
BqRaised == bqPc = "done" /\ bqExc # "none"

-----------------------------------------------------------------------------
(* The analytical queries: the data both stores hold *)

\* SQL NULL, a document field holding None; a value v is the tuple <<v>>
NULL == <<>>
Val(c) == c[1]

\* a query function that has not returned yet has no result; a returned
\* list rows is held as <<rows>>
Returned(rows) == <<rows>>
ListOf(result) == result[1]

Min(a, b) == IF a <= b THEN a ELSE b

Reverse(s) == [i \in DOMAIN s |-> s[Len(s) + 1 - i]]

\* the relational store: a table is the set of the warehouse's rows
PgTable(name) == Range(warehouse[name])

\* the document store: one document per product, with the history rows of
\* its asin embedded in CSV order
Embedded(name, asin) ==
    IF name \in DOMAIN warehouse
    THEN SelectSeq(warehouse[name], LAMBDA r : r.asin = asin)
    ELSE <<>>

MongoDocs ==
    [i \in DOMAIN warehouse.products |->
        [product |-> warehouse.products[i],
         asin |-> warehouse.products[i].asin,
         price_history |-> Embedded("price_history", warehouse.products[i].asin),
         sales_rank_history |->
             Embedded("sales_rank_history", warehouse.products[i].asin)]]

\* $unwind: one <<document, array element>> pair per element of the array
Unwind(docs, field) ==
    UNION {{[doc |-> docs[i], elem |-> docs[i][field][j]] :
                j \in DOMAIN docs[i][field]} : i \in DOMAIN docs}

\* ORDER BY date / $sort on date: rows of one product, whose dates differ
RECURSIVE SortByDate(_)
SortByDate(rows) ==
    IF rows = {} THEN <<>>
    ELSE LET first == CHOOSE r \in rows : \A q \in rows : r.date <= q.date
         IN  <<first>> \o SortByDate(rows \ {first})

\* ORDER BY rank_change ASC / $sort {rank_change: 1}: every order of the rows
\* by ascending rank_change; rows with equal rank_change come in any order
RECURSIVE OrderByRankChange(_)
OrderByRankChange(rows) ==
    IF rows = {} THEN {<<>>}
    ELSE UNION {{<<r>> \o s : s \in OrderByRankChange(rows \ {r})} :
                    r \in {r \in rows : \A q \in rows : r.rank_change <= q.rank_change}}

\* LIMIT n / $limit
Limit(s, n) == SubSeq(s, 1, Min(n, Len(s)))

-----------------------------------------------------------------------------
(* Query 2: top products by sales-rank improvement *)

\* the CTE rank_changes: join, WHERE, LAG over each product's rows by date
rank_changes(days) ==
    LET srh == {r \in PgTable("sales_rank_history") :
                    /\ \E p \in PgTable("products") : p.asin = r.asin
                    /\ r.date >= today - days
                    /\ r.sales_rank # NULL}
        part(asin) == SortByDate({r \in srh : r.asin = asin})
    IN  UNION {{[asin |-> asin,
                 date |-> part(asin)[i].date,
                 sales_rank |-> part(asin)[i].sales_rank,
                 previous_rank |-> IF i = 1 THEN NULL ELSE part(asin)[i - 1].sales_rank,
                 rank_change |-> IF i = 1 THEN NULL
                                 ELSE <<Val(part(asin)[i].sales_rank)
                                        - Val(part(asin)[i - 1].sales_rank)>>] :
                    i \in DOMAIN part(asin)} : asin \in {r.asin : r \in srh}}

\* a returned row (the product's title, brand and category are left out:
\* both stores copy them from the product)
RankRow(asin, date, sales_rank, previous_rank, rank_change) ==
    [asin |-> asin, date |-> date, sales_rank |-> sales_rank,
     previous_rank |-> previous_rank, rank_change |-> rank_change]

\* the lists postgres_query_top_sales_rank_improvement can return
postgres_query_top_sales_rank_improvement(days, limit) ==
    LET selected == {RankRow(c.asin, c.date, Val(c.sales_rank), Val(c.previous_rank),
                             Val(c.rank_change)) :
                        c \in {c \in rank_changes(days) :
                                  c.rank_change # NULL /\ Val(c.rank_change) < 0}}
    IN  {Limit(s, limit) : s \in OrderByRankChange(selected)}

\* the $map over $range(1, size): element idx (0-based) against element idx - 1
rank_improvements(rank_history) ==
    {[date |-> rank_history[idx + 1].date,
      sales_rank |-> Val(rank_history[idx + 1].sales_rank),
      previous_rank |-> Val(rank_history[idx].sales_rank),
      rank_change |-> Val(rank_history[idx].sales_rank)
                      - Val(rank_history[idx + 1].sales_rank)] :
        idx \in 1..(Len(rank_history) - 1)}

\* the lists mongodb_query_top_sales_rank_improvement can return
mongodb_query_top_sales_rank_improvement(days, limit) ==
    LET matched == {u \in Unwind(MongoDocs, "sales_rank_history") :
                        u.elem.date >= today - days /\ u.elem.sales_rank # NULL}
        rank_history(asin) == SortByDate({u.elem : u \in {m \in matched : m.doc.asin = asin}})
        improvements ==
            UNION {{RankRow(asin, x.date, x.sales_rank, x.previous_rank, x.rank_change) :
                        x \in rank_improvements(rank_history(asin))} :
                      asin \in {u.doc.asin : u \in matched}}
    IN  {Limit(s, limit) : s \in OrderByRankChange({x \in improvements : x.rank_change < 0})}

QueryBenchmark_postgres_query_top_sales_rank_improvement ==
    /\ queryArgs.query = "top_sales_rank_improvement"
    /\ ~IsSet(postgres_results)
    /\ \E rows \in postgres_query_top_sales_rank_improvement(queryArgs.days, queryArgs.limit) :
           postgres_results' = Returned(rows)
    /\ UNCHANGED <<warehouse, today, queryArgs, mongodb_results>>
    /\ UNCHANGED qFrame

QueryBenchmark_mongodb_query_top_sales_rank_improvement ==
    /\ queryArgs.query = "top_sales_rank_improvement"
    /\ ~IsSet(mongodb_results)
    /\ \E rows \in mongodb_query_top_sales_rank_improvement(queryArgs.days, queryArgs.limit) :
           mongodb_results' = Returned(rows)
    /\ UNCHANGED <<warehouse, today, queryArgs, postgres_results>>
    /\ UNCHANGED qFrame

-----------------------------------------------------------------------------
(* Calendar dates: <<year, month, day>>. An ISO date string 'YYYY-MM-DD'   *)
(* compares as its three zero-padded fields do, in this order.             *)

IsLeap(y) == y % 4 = 0 /\ (y % 100 # 0 \/ y % 400 = 0)

DaysInMonth(y, m) ==
    IF m = 2 THEN (IF IsLeap(y) THEN 29 ELSE 28)
    ELSE IF m \in {4, 6, 9, 11} THEN 30 ELSE 31

\* date >= start, on DATE values and on 'YYYY-MM-DD' strings alike
DateGeq(date, start) ==
    \/ date[1] > start[1]
    \/ date[1] = start[1] /\ date[2] > start[2]
    \/ date[1] = start[1] /\ date[2] = start[2] /\ date[3] >= start[3]

\* the last day of the month before the month of date
EndOfPreviousMonth(date) ==
    IF date[2] > 1 THEN <<date[1], date[2] - 1, DaysInMonth(date[1], date[2] - 1)>>
    ELSE <<date[1] - 1, 12, 31>>

\* datetime - timedelta(days = n), a month at a time
RECURSIVE MinusDays(_, _)
MinusDays(date, n) ==
    IF n < date[3] THEN <<date[1], date[2], date[3] - n>>
    ELSE MinusDays(EndOfPreviousMonth(date), n - date[3])

\* date - INTERVAL 'n months': n calendar months back, the day of the month
\* kept, or the last day of the month reached when that month is shorter
MinusMonths(date, n) ==
    LET total == date[1] * 12 + (date[2] - 1) - n
        y == total \div 12
        m == (total % 12) + 1
    IN  <<y, m, Min(date[3], DaysInMonth(y, m))>>

\* DATE_TRUNC('month', date)::DATE
DateTruncMonth(date) == <<date[1], date[2], 1>>

\* $substr(date, 0, 7), and $concat with '-01'
YearMonth(date) == <<date[1], date[2]>>
ConcatDay01(year_month) == <<year_month[1], year_month[2], 1>>

-----------------------------------------------------------------------------
(* Query 1: price trend by category *)

SetMin(S) == CHOOSE x \in S : \A y \in S : x <= y
SetMax(S) == CHOOSE x \in S : \A y \in S : x >= y

\* category names in ascending order
Categories == <<"Books", "Toys">>
CategoryPos(c) == CHOOSE i \in DOMAIN Categories : Categories[i] = c

\* ORDER BY month DESC, category / $sort {month: -1, category: 1}
TrendBefore(r, q) ==
    \/ r.month # q.month /\ DateGeq(r.month, q.month)
    \/ r.month = q.month /\ CategoryPos(r.category) <= CategoryPos(q.category)

RECURSIVE OrderTrend(_)
OrderTrend(rows) ==
    IF rows = {} THEN <<>>
    ELSE LET first == CHOOSE r \in rows : \A q \in rows : TrendBefore(r, q)
         IN  <<first>> \o OrderTrend(rows \ {first})

\* a returned row (avg_price and price_stddev are left out)
TrendRow(category, month, asins, prices) ==
    [category |-> category, month |-> month, product_count |-> Cardinality(asins),
     min_price |-> SetMin(prices), max_price |-> SetMax(prices)]

\* the lower bound of the date window of each store
postgres_start_date(months) == MinusMonths(today, months)
mongodb_start_date(months) == MinusDays(today, months * 30)

\* if category: (None and the empty string add no filter)
HasCategory(category) == category # NULL /\ Val(category) # ""

postgres_query_price_trend(category, months) ==
    LET selected == {r \in PgTable("price_history") :
                        /\ DateGeq(r.date, postgres_start_date(months))
                        /\ (HasCategory(category) => r.source_category = Val(category))}
        groups == {<<r.source_category, DateTruncMonth(r.date)>> : r \in selected}
        members(g) == {r \in selected :
                          r.source_category = g[1] /\ DateTruncMonth(r.date) = g[2]}
    IN  OrderTrend({TrendRow(g[1], g[2], {r.asin : r \in members(g)},
                             {r.price_usd : r \in members(g)}) : g \in groups})

mongodb_query_price_trend(category, months) ==
    LET matched == {u \in Unwind(MongoDocs, "price_history") :
                        /\ DateGeq(u.elem.date, mongodb_start_date(months))
                        /\ (HasCategory(category) => u.doc.product.category = Val(category))}
        groups == {<<u.doc.product.category, YearMonth(u.elem.date)>> : u \in matched}
        members(g) == {u \in matched :
                          u.doc.product.category = g[1] /\ YearMonth(u.elem.date) = g[2]}
    IN  OrderTrend({TrendRow(g[1], ConcatDay01(g[2]), {u.doc.asin : u \in members(g)},
                             {u.elem.price_usd : u \in members(g)}) : g \in groups})

QueryBenchmark_postgres_query_price_trend ==
    /\ queryArgs.query = "price_trend"
    /\ ~IsSet(postgres_results)
    /\ postgres_results' =
           Returned(postgres_query_price_trend(queryArgs.category, queryArgs.months))
    /\ UNCHANGED <<warehouse, today, queryArgs, mongodb_results>>
    /\ UNCHANGED qFrame

QueryBenchmark_mongodb_query_price_trend ==
    /\ queryArgs.query = "price_trend"
    /\ ~IsSet(mongodb_results)
    /\ mongodb_results' =
           Returned(mongodb_query_price_trend(queryArgs.category, queryArgs.months))
    /\ UNCHANGED <<warehouse, today, queryArgs, postgres_results>>
    /\ UNCHANGED qFrame

-----------------------------------------------------------------------------
(* Query 3: brand analysis, on the products both CSV loaders have loaded *)

\* numbers are floats num/den; SUM and numeric equality on them
FloatEq(x, y) == x.num * y.den = y.num * x.den

RECURSIVE FloatSum(_)
FloatSum(xs) ==
    IF xs = <<>> THEN Float(0, 1)
    ELSE LET rest == FloatSum(Tail(xs))
         IN  Float(Head(xs).num * rest.den + rest.num * Head(xs).den,
                   Head(xs).den * rest.den)

FloatMax(xs) == CHOOSE x \in Range(xs) : \A y \in Range(xs) : ~Less(x, y)

\* AVG / $avg and MAX / $max over the non-null values; NULL when there is none
Avg(values) ==
    LET xs == SelectSeq(values, LAMBDA v : v # NULL)
    IN  IF xs = <<>> THEN NULL
        ELSE <<Float(FloatSum([i \in DOMAIN xs |-> Val(xs[i])]).num,
                     FloatSum([i \in DOMAIN xs |-> Val(xs[i])]).den * Len(xs))>>

Max(values) ==
    LET xs == SelectSeq(values, LAMBDA v : v # NULL)
    IN  IF xs = <<>> THEN NULL ELSE <<FloatMax([i \in DOMAIN xs |-> Val(xs[i])])>>

\* df['review_count'].fillna(0).astype(int): NaN becomes 0, a float loses
\* its fraction
FillnaAstypeInt(cell) ==
    IF cell = NaN THEN Float(0, 1) ELSE Float(Val(cell).num \div Val(cell).den, 1)

\* the products table after PostgresCSVLoader.load_products: COPY takes an
\* empty cell as NULL and takes no row when two rows have the same asin
PgProducts(rows) ==
    IF ~NoDuplicates([i \in DOMAIN rows |-> rows[i].asin]) THEN <<>>
    ELSE [i \in DOMAIN rows |->
             [asin |-> rows[i].asin, brand |-> rows[i].brand,
              review_count |-> <<FillnaAstypeInt(rows[i].review_count)>>]]

\* the product documents of MongoCSVLoader.load_products: brand and
\* review_count are set only when pd.notna (a field that is not set reads as
\* NULL); no unique index exists while the first load inserts
MongoProducts(rows) ==
    [i \in DOMAIN rows |->
        [asin |-> rows[i].asin,
         brand |-> IF rows[i].brand # NaN THEN rows[i].brand ELSE NULL,
         review_count |-> IF rows[i].review_count # NaN THEN rows[i].review_count
                          ELSE NULL]]

\* the rows of both brand-analysis queries: p.brand IS NOT NULL / $ne None,
\* or the brand asked for; one row per (brand, asin) group. The rating
\* columns, the title and the order of the list are left out.
BrandRows(products, brand) ==
    LET selected == SelectSeq(products, LAMBDA p :
                        IF brand # NULL /\ Val(brand) # "" THEN p.brand = brand
                        ELSE p.brand # NULL)
        groups == {<<p.brand, p.asin>> : p \in Range(selected)}
        members(g) == SelectSeq(selected, LAMBDA p : p.brand = g[1] /\ p.asin = g[2])
    IN  {[brand |-> Val(g[1]), asin |-> g[2],
          avg_review_count |->
              Avg([i \in DOMAIN members(g) |-> members(g)[i].review_count]),
          max_review_count |->
              Max([i \in DOMAIN members(g) |-> members(g)[i].review_count]),
          metric_count |-> Len(members(g))] : g \in groups}

postgres_query_brand_analysis(brand) == BrandRows(PgProducts(warehouse.products_csv), brand)

mongodb_query_brand_analysis(brand) == BrandRows(MongoProducts(warehouse.products_csv), brand)

QueryBenchmark_postgres_query_brand_analysis ==
    /\ queryArgs.query = "brand_analysis"
    /\ ~IsSet(postgres_results)
    /\ postgres_results' = Returned(postgres_query_brand_analysis(queryArgs.brand))
    /\ UNCHANGED <<warehouse, today, queryArgs, mongodb_results>>
    /\ UNCHANGED qFrame

QueryBenchmark_mongodb_query_brand_analysis ==
    /\ queryArgs.query = "brand_analysis"
    /\ ~IsSet(mongodb_results)
    /\ mongodb_results' = Returned(mongodb_query_brand_analysis(queryArgs.brand))
    /\ UNCHANGED <<warehouse, today, queryArgs, postgres_results>>
    /\ UNCHANGED qFrame

-----------------------------------------------------------------------------
(* etl/transformer.py: DataTransformer.deduplicate *)

\* item.get(key_field): the value of the key field, None (NULL) without it
Get(item) == item.asin

\* an integer key, as opposed to a string
IntKey(n) == <<"int", n>>

\* a check "if key is not None"
Truthy_notNone(key) == key # NULL

\* "if key": None, the empty string and 0 are false
Truthy(key) == key # NULL /\ Val(key) # "" /\ key # IntKey(0)

\* "key not in seen"
NotSeen_always(key, seen) == TRUE
NotSeen(key, seen) == key \notin seen

\* the loop over data from item i on, with the set seen and the list unique
RECURSIVE DeduplicateFrom(_, _, _, _)
DeduplicateFrom(items, i, seen, kept) ==
    IF i > Len(items) THEN kept
    ELSE LET key == Get(items[i])
         IN  IF Truthy(key) /\ NotSeen(key, seen)
             THEN DeduplicateFrom(items, i + 1, seen \cup {key}, Append(kept, items[i]))
             ELSE DeduplicateFrom(items, i + 1, seen, kept)

deduplicate(items) == DeduplicateFrom(items, 1, {}, <<>>)

DataTransformer_deduplicate ==
    /\ IsSet(data)
    /\ ~IsSet(uniqueRecords)
    /\ uniqueRecords' = Returned(deduplicate(ListOf(data)))
    /\ UNCHANGED <<data, uniqueAgain>>
    /\ UNCHANGED tFrame

\* deduplicate called on the list it returned
DataTransformer_deduplicate_again ==
    /\ IsSet(uniqueRecords)
    /\ ~IsSet(uniqueAgain)
    /\ uniqueAgain' = Returned(deduplicate(ListOf(uniqueRecords)))
    /\ UNCHANGED <<data, uniqueRecords>>
    /\ UNCHANGED tFrame

\* deduplicate is not running
TQuiet ==
    /\ data = Unset
    /\ uniqueRecords = Unset
    /\ uniqueAgain = Unset

-----------------------------------------------------------------------------
(* analysis/generate_dashboard.py: BenchmarkDashboard.measure_storage_size *)

\* 1024 * 1024
BytesPerMb == 1024 * 1024

\* what pg_database_size(current_database()) can report, in bytes: the system
\* catalogs of the database are counted, with or without rows in its tables
PgSizeBytes(empty) ==
    IF empty THEN {8 * BytesPerMb} ELSE {9 * BytesPerMb, 19 * (BytesPerMb \div 2)}

\* what dbStats can report as dataSize + indexSize, in bytes: no data means
\* dataSize 0, while the indexes of an empty collection are counted
MongoSizeBytes(empty) ==
    IF empty THEN {0, BytesPerMb \div 2} ELSE {BytesPerMb, 3 * (BytesPerMb \div 2)}

NoSizes == [postgres_size_mb |-> Float(0, 1), mongodb_size_mb |-> Float(0, 1)]

\* a measurement whose try statement lets the exception through
MeasureCatches_nothing(o) == FALSE

\* "except Exception as e" around each measurement
MeasureCatches(o) == TRUE

\* results = {'postgres_size_mb': 0.0, 'mongodb_size_mb': 0.0}
BenchmarkDashboard_measure_storage_size ==
    /\ msPc = "idle"
    /\ msResults' = NoSizes
    /\ msPc' = "postgres"
    /\ UNCHANGED <<storeEmpty, msConn, msExc, msLog>>
    /\ UNCHANGED msFrame

\* "PostgreSQL storage size": connect, SELECT pg_database_size, conn.close()
BenchmarkDashboard_measure_storage_size_postgres ==
    /\ msPc = "postgres"
    /\ \E o \in {"ok", "connect_failed", "execute_failed"} :
         /\ msLog' = Append(msLog, <<"postgres", o>>)
         /\ IF o = "ok"
            THEN /\ \E size_bytes \in PgSizeBytes(storeEmpty["postgres"]) :
                      msResults' = [msResults EXCEPT
                                       !.postgres_size_mb = Float(size_bytes, BytesPerMb)]
                 /\ msConn' = "closed"
                 /\ msPc' = "mongodb"
                 /\ UNCHANGED msExc
            ELSE /\ msConn' = IF o = "connect_failed" THEN msConn ELSE "open"
                 /\ UNCHANGED msResults
                 /\ IF MeasureCatches(o)
                    THEN msPc' = "mongodb" /\ UNCHANGED msExc
                    ELSE msPc' = "done" /\ msExc' = o
    /\ UNCHANGED storeEmpty
    /\ UNCHANGED msFrame

\* "MongoDB storage size": get_database, db.command("dbStats")
BenchmarkDashboard_measure_storage_size_mongodb ==
    /\ msPc = "mongodb"
    /\ \E o \in {"ok", "get_database_failed", "command_failed"} :
         /\ msLog' = Append(msLog, <<"mongodb", o>>)
         /\ IF o = "ok"
            THEN /\ \E size_bytes \in MongoSizeBytes(storeEmpty["mongodb"]) :
                      msResults' = [msResults EXCEPT
                                       !.mongodb_size_mb = Float(size_bytes, BytesPerMb)]
                 /\ msPc' = "return"
                 /\ UNCHANGED msExc
            ELSE /\ UNCHANGED msResults
                 /\ IF MeasureCatches(o)
                    THEN msPc' = "return" /\ UNCHANGED msExc
                    ELSE msPc' = "done" /\ msExc' = o
    /\ UNCHANGED <<storeEmpty, msConn>>
    /\ UNCHANGED msFrame

\* return results
BenchmarkDashboard_measure_storage_size_return ==
    /\ msPc = "return"
    /\ msPc' = "done"
    /\ UNCHANGED <<storeEmpty, msResults, msConn, msExc, msLog>>
    /\ UNCHANGED msFrame

\* measure_storage_size is not running
MsQuiet ==
    /\ storeEmpty = [s \in Stores |-> TRUE]
    /\ msPc = "idle"
    /\ msResults = Unset
    /\ msConn = "none"
    /\ msExc = "none"
    /\ msLog = <<>>

-----------------------------------------------------------------------------
(* BenchmarkDashboard.run_full_benchmark *)

\* {} and [] of Python, and a non-empty dictionary
Empty == <<>>
Dict(d) == <<d>>

\* the dictionary measure_load_performance returns (the two throughput
\* entries and the note are left out): placeholders when the load is skipped,
\* float('inf') for a loader whose run_full_load raised
measure_load_performance(skip, o_postgres, o_mongodb) ==
    IF skip
    THEN Dict([postgres_load_time |-> Float(0, 1), mongodb_load_time |-> Float(0, 1)])
    ELSE Dict([postgres_load_time |-> IF o_postgres = "ok" THEN Float(1, 1) ELSE Float(inf, 1),
               mongodb_load_time |-> IF o_mongodb = "ok" THEN Float(1, 1) ELSE Float(inf, 1)])

\* the timings of one query on one store in the suite: one iteration that
\* took a tick or failed
DashTimes == {<<1>>, <<inf>>}

\* the lists run_all_benchmarks can return when every query is timed once
\* with the durations of T
QueryResultLists(T) ==
    {[q \in DOMAIN QueryNames |-> BenchmarkResult(QueryNames[q], pt[q], mt[q])] :
        pt \in [DOMAIN QueryNames -> T], mt \in [DOMAIN QueryNames -> T]}

\* the left plot: a bar is annotated with its time when the time, with
\* float('inf') replaced by 0, is positive
LoadLabel(t) == IF ~IsInf(t) /\ t.num > 0 THEN "time" ELSE "none"
LoadChart(load_performance) ==
    IF load_performance = Empty THEN Empty
    ELSE Dict([postgres |-> LoadLabel(load_performance[1].postgres_load_time),
               mongodb |-> LoadLabel(load_performance[1].mongodb_load_time)])

\* the right plot, PostgreSQL bars: float('inf') is replaced by 0 and a bar
\* is annotated with its time when its height is positive
PostgresLabel(pg_time) == IF ~IsInf(pg_time) /\ pg_time.num > 0 THEN "time" ELSE "none"

\* the right plot, MongoDB bars: float('inf') and 0 are entered in
\* mongodb_failed and annotated 'Failed'
MongoLabel(mongo_time) ==
    IF IsInf(mongo_time) \/ mongo_time.num = 0 THEN "Failed" ELSE "time"

QueryChart(query_performance) ==
    [i \in DOMAIN query_performance |->
        [postgres |-> PostgresLabel(query_performance[i].postgres_time),
         mongodb |-> MongoLabel(query_performance[i].mongodb_time)]]

\* the figure generate_visualization draws from self.results
Chart(r) == [load |-> LoadChart(r.load_performance), query |-> QueryChart(r.query_performance)]

\* a suite whose try statements let a step's exception through
StepCatches_nothing(o) == FALSE

\* "except Exception as e" around each step of run_full_benchmark
StepCatches(o) == TRUE

DashLogged(step, outcome) ==
    dbLog' = Append(dbLog, [step |-> step, outcome |-> outcome, logged |-> outcome # "ok"])

\* entry into run_full_benchmark: self.skip_load = skip_load
BenchmarkDashboard_run_full_benchmark ==
    /\ dbPc = "idle"
    /\ dbPc' = "load_performance"
    /\ UNCHANGED <<skip_load, self_results, chart, saved, dbExc, dbLog>>
    /\ UNCHANGED dbFrame

\* Step 1: measure_load_performance. The loaders' failures are caught
\* inside; MongoCSVLoader(...) is constructed outside its try statement, so
\* a failure of get_database() reaches run_full_benchmark.
BenchmarkDashboard_measure_load_performance ==
    /\ dbPc = "load_performance"
    /\ IF skip_load
       THEN /\ self_results' = [self_results EXCEPT
                                   !.load_performance = measure_load_performance(TRUE, "ok", "ok")]
            /\ DashLogged("load_performance", "ok")
            /\ dbPc' = "query_performance"
            /\ UNCHANGED dbExc
       ELSE \E o_postgres, o_init, o_mongodb \in {"ok", "raised"} :
              IF o_init = "raised"
              THEN IF StepCatches(o_init)
                   THEN /\ self_results' = [self_results EXCEPT !.load_performance = Empty]
                        /\ DashLogged("load_performance", "raised")
                        /\ dbPc' = "query_performance"
                        /\ UNCHANGED dbExc
                   ELSE /\ dbExc' = "load_performance"
                        /\ dbPc' = "done"
                        /\ UNCHANGED <<self_results, dbLog>>
              ELSE /\ self_results' = [self_results EXCEPT
                          !.load_performance = measure_load_performance(FALSE, o_postgres, o_mongodb)]
                   /\ DashLogged("load_performance",
                                 IF o_postgres = "ok" /\ o_mongodb = "ok" THEN "ok" ELSE "failed")
                   /\ dbPc' = "query_performance"
                   /\ UNCHANGED dbExc
    /\ UNCHANGED <<skip_load, chart, saved>>
    /\ UNCHANGED dbFrame

\* Step 2: measure_query_performance, which catches whatever
\* run_all_benchmarks raises and returns [] then
BenchmarkDashboard_measure_query_performance ==
    /\ dbPc = "query_performance"
    /\ \/ /\ self_results' = [self_results EXCEPT !.query_performance = <<>>]
          /\ DashLogged("query_performance", "failed")
       \/ \E rs \in QueryResultLists(DashTimes) :
            /\ self_results' = [self_results EXCEPT !.query_performance = rs]
            /\ DashLogged("query_performance", "ok")
    /\ dbPc' = "storage_size"
    /\ UNCHANGED <<skip_load, chart, saved, dbExc>>
    /\ UNCHANGED dbFrame

\* Step 3, the call: the statements of measure_storage_size
BenchmarkDashboard_run_full_benchmark_measure_storage_size ==
    /\ dbPc = "storage_size"
    /\ \/ BenchmarkDashboard_measure_storage_size
       \/ BenchmarkDashboard_measure_storage_size_postgres
       \/ BenchmarkDashboard_measure_storage_size_mongodb
       \/ BenchmarkDashboard_measure_storage_size_return

\* Step 3, after the call: self.results['storage_size'] = ...
BenchmarkDashboard_run_full_benchmark_storage_size ==
    /\ dbPc = "storage_size"
    /\ msPc = "done"
    /\ IF msExc = "none"
       THEN /\ self_results' = [self_results EXCEPT !.storage_size = Dict(msResults)]
            /\ DashLogged("storage_size",
                          IF \E i \in DOMAIN msLog : msLog[i][2] # "ok" THEN "failed" ELSE "ok")
            /\ dbPc' = "visualization"
            /\ UNCHANGED dbExc
       ELSE IF StepCatches(msExc)
       THEN /\ self_results' = [self_results EXCEPT !.storage_size = Empty]
            /\ DashLogged("storage_size", "raised")
            /\ dbPc' = "visualization"
            /\ UNCHANGED dbExc
       ELSE /\ dbExc' = "storage_size"
            /\ dbPc' = "done"
            /\ UNCHANGED <<self_results, dbLog>>
    /\ UNCHANGED <<skip_load, chart, saved>>
    /\ UNCHANGED dbFrame

\* Step 4: generate_visualization draws both plots and saves the figure;
\* plt.savefig can raise
BenchmarkDashboard_generate_visualization ==
    /\ dbPc = "visualization"
    /\ \E o \in {"ok", "raised"} :
         IF o = "ok"
         THEN /\ chart' = Dict(Chart(self_results))
              /\ DashLogged("visualization", "ok")
              /\ dbPc' = "save_results"
              /\ UNCHANGED dbExc
         ELSE IF StepCatches(o)
         THEN /\ DashLogged("visualization", "raised")
              /\ dbPc' = "save_results"
              /\ UNCHANGED <<chart, dbExc>>
         ELSE /\ dbExc' = "visualization"
              /\ dbPc' = "done"
              /\ UNCHANGED <<chart, dbLog>>
    /\ UNCHANGED <<skip_load, self_results, saved>>
    /\ UNCHANGED dbFrame

\* Step 5: save_results writes self.results as JSON; open() can raise
BenchmarkDashboard_save_results ==
    /\ dbPc = "save_results"
    /\ \E o \in {"ok", "raised"} :
         IF o = "ok"
         THEN /\ saved' = Dict(self_results)
              /\ DashLogged("save_results", "ok")
              /\ dbPc' = "summary"
              /\ UNCHANGED dbExc
         ELSE IF StepCatches(o)
         THEN /\ DashLogged("save_results", "raised")
              /\ dbPc' = "summary"
              /\ UNCHANGED <<saved, dbExc>>
         ELSE /\ dbExc' = "save_results"
              /\ dbPc' = "done"
              /\ UNCHANGED <<saved, dbLog>>
    /\ UNCHANGED <<skip_load, self_results, chart>>
    /\ UNCHANGED dbFrame

\* the summary lines and the end of run_full_benchmark
BenchmarkDashboard_run_full_benchmark_return ==
    /\ dbPc = "summary"
    /\ dbPc' = "done"
    /\ UNCHANGED <<skip_load, self_results, chart, saved, dbExc, dbLog>>
    /\ UNCHANGED dbFrame

\* BenchmarkDashboard(): self.results holds three empty dictionaries
DInit ==
    /\ self_results = [load_performance |-> Empty, query_performance |-> Empty,
                       storage_size |-> Empty]
    /\ chart = Unset
    /\ saved = Unset
    /\ dbExc = "none"
    /\ dbLog = <<>>

\* no dashboard is running
DQuiet ==
    /\ DInit
    /\ skip_load = TRUE
    /\ dbPc = "idle"

\* no query function is running
QQuiet ==
    /\ warehouse = [products |-> <<>>]
    /\ today = 0
    /\ queryArgs = [query |-> "none"]
    /\ postgres_results = Unset
    /\ mongodb_results = Unset

-----------------------------------------------------------------------------
(* Specification of the PostgreSQL loader *)

\* a data directory: each file is missing or has one of the given contents
DataDir(products, price, rank, metrics) ==
    {[f \in FileNames |-> CASE f = PRODUCTS_CSV -> p [] f = PRICE_CSV -> h
                               [] f = RANK_CSV -> r [] OTHER -> m] :
        p \in {Missing} \cup products, h \in {Missing} \cup price,
        r \in {Missing} \cup rank, m \in {Missing} \cup metrics}

CsvFiles(asins) ==
    DataDir(SeqsUpTo(asins, MaxRows), SeqsUpTo(asins, MaxRows),
            SeqsUpTo(asins, MaxAuxRows), SeqsUpTo(asins, MaxAuxRows))

\* the PostgreSQL side before any loader object exists
PgQuiet ==
    /\ pgDb = EmptyTables
    /\ pgPending = EmptyTables
    /\ pgTxFailed = FALSE
    /\ pgConn = "none"
    /\ pgPc = "idle"
    /\ pgRun = 0
    /\ pgRowcount = -1
    /\ pgInflight = "none"
    /\ pgExc = "none"
    /\ pgCounts = Unset
    /\ pgStats = Unset
    /\ pgResult = Unset
    /\ pgLog = <<>>

\* the MongoDB side before any loader object exists, the collection empty
MgQuiet ==
    /\ mgColl = <<>>
    /\ mgFaults = 0
    /\ price_history_dict = <<>>
    /\ sales_rank_history_dict = <<>>
    /\ documents_to_insert = <<>>
    /\ processed_count = 0
    /\ mgRow = 1
    /\ mgPc = "idle"
    /\ mgRun = 0
    /\ mgExc = "none"
    /\ mgLog = <<>>

\* the benchmark before run_all_benchmarks is called
BqQuiet ==
    /\ postgres_conn = "none"
    /\ bqTxAborted = FALSE
    /\ mongo_db = "none"
    /\ iterations = 1
    /\ bqPc = "idle"
    /\ bqQuery = 0
    /\ postgres_times = <<>>
    /\ mongodb_times = <<>>
    /\ results = <<>>
    /\ bqExc = "none"
    /\ bqReturned = <<>>
    /\ bqCalls = NoCalls
    /\ bqFailed = {}

InitPg ==
    /\ DQuiet
    /\ BqQuiet
    /\ QQuiet
    /\ TQuiet
    /\ MsQuiet
    /\ csv \in CsvFiles(PgAsins)
    /\ fkEnforced \in BOOLEAN
    /\ MgQuiet
    /\ mgIndexes = {}
    /\ pgDb = EmptyTables
    /\ pgPending = EmptyTables
    /\ pgTxFailed = FALSE
    /\ pgConn = "none"
    /\ pgPc = "idle"
    /\ pgRun = 0
    /\ pgRowcount = -1
    /\ pgInflight = "none"
    /\ pgExc = "none"
    /\ pgCounts = Unset
    /\ pgStats = Unset
    /\ pgResult = Unset
    /\ pgLog = <<>>

NextPg ==
    \/ PostgresCSVLoader_init
    \/ PostgresCSVLoader_connect
    \/ PostgresCSVLoader_load_products
    \/ PostgresCSVLoader_load_products_finally
    \/ PostgresCSVLoader_load_price_history
    \/ PostgresCSVLoader_load_price_history_commit
    \/ PostgresCSVLoader_load_sales_rank_history
    \/ PostgresCSVLoader_load_sales_rank_history_commit
    \/ PostgresCSVLoader_load_product_metrics
    \/ PostgresCSVLoader_load_product_metrics_commit
    \/ PostgresCSVLoader_verify_data_integrity
    \/ PostgresCSVLoader_run_full_load_return
    \/ PostgresCSVLoader_run_full_load_except
    \/ PostgresCSVLoader_close

SpecPg == InitPg /\ [][NextPg]_vars

-----------------------------------------------------------------------------
(* Specification of the MongoDB loader *)

MaxProducts == 3   \* rows in products.csv
MaxHistory == 1    \* rows in price_history.csv

\* asin cells of products.csv (plain, blank only) and of price_history.csv
\* (padded with a blank)
ProductCells == {<<"A">>, <<"B">>, <<" ">>}
PriceCells == {<<" ", "A">>}

\* products.csv: up to MaxProducts rows, or a row with an empty asin cell
\* before a product
ProductFiles == SeqsUpTo(ProductCells, MaxProducts) \cup {<<NaN, <<"B">>>>}

\* sales_rank_history.csv: one row, with an empty asin cell or with an asin,
\* or three rows of two products
RankFiles == {<<NaN>>, << <<"B">> >>, << <<"B">>, <<"A">>, <<"B">> >>}

InitMongo ==
    /\ DQuiet
    /\ BqQuiet
    /\ QQuiet
    /\ TQuiet
    /\ MsQuiet
    /\ csv \in DataDir(ProductFiles, SeqsUpTo(PriceCells, MaxHistory),
                       RankFiles, {})
    /\ MgQuiet
    /\ mgIndexes = {}
    /\ PgQuiet
    /\ fkEnforced = TRUE

NextMongo ==
    \/ MongoCSVLoader_init
    \/ MongoCSVLoader_load_price_history
    \/ MongoCSVLoader_load_sales_rank_history
    \/ MongoCSVLoader_load_products
    \/ MongoCSVLoader_load_products_row
    \/ MongoCSVLoader_load_products_final
    \/ MongoCSVLoader_load_products_return
    \/ MongoCSVLoader_create_indexes
    \/ MongoCSVLoader_run_full_load_return
    \/ MongoCSVLoader_run_full_load_except

SpecMongo == InitMongo /\ [][NextMongo]_vars

-----------------------------------------------------------------------------
(* Specification of the query benchmark *)

InitBench ==
    /\ DQuiet
    /\ csv = [f \in FileNames |-> Missing]
    /\ fkEnforced = TRUE
    /\ PgQuiet
    /\ MgQuiet
    /\ mgIndexes = {}
    /\ BqQuiet
    /\ QQuiet
    /\ TQuiet
    /\ MsQuiet

NextBench ==
    \/ QueryBenchmark_run_all_benchmarks
    \/ QueryBenchmark_connect_postgres
    \/ QueryBenchmark_connect_mongodb
    \/ QueryBenchmark_benchmark_query_postgres
    \/ QueryBenchmark_benchmark_query_mongodb
    \/ QueryBenchmark_benchmark_query_return
    \/ QueryBenchmark_run_all_benchmarks_return
    \/ QueryBenchmark_run_all_benchmarks_except
    \/ QueryBenchmark_close_postgres

SpecBench == InitBench /\ [][NextBench]_vars

-----------------------------------------------------------------------------
(* Specification of the sales-rank improvement queries *)

MaxDate == 3       \* days with a sales-rank observation

\* the sales_rank cell of an observation of product A and of product B
RankCellsA == {NULL, <<1>>, <<2>>, <<3>>}
RankCellsB == {<<1>>, <<2>>}

RankHistory(asin, cells) ==
    [d \in 1..MaxDate |-> [asin |-> asin, date |-> d, sales_rank |-> cells[d]]]

\* two products with one observation per day each, the CSV rows in ascending
\* or in descending date order
RankWarehouses ==
    {[products |-> <<[asin |-> "A"], [asin |-> "B"]>>, sales_rank_history |-> rows] :
        rows \in UNION {{RankHistory("A", ca) \o RankHistory("B", cb),
                         Reverse(RankHistory("A", ca) \o RankHistory("B", cb))} :
                            ca \in [1..MaxDate -> RankCellsA],
                            cb \in [1..MaxDate -> RankCellsB]}}

RankPlain ==
    /\ TQuiet
    /\ MsQuiet
    /\ csv = [f \in FileNames |-> Missing]
    /\ fkEnforced = TRUE
    /\ PgQuiet
    /\ MgQuiet
    /\ mgIndexes = {}
    /\ BqQuiet

InitRank ==
    /\ DQuiet
    /\ RankPlain
    /\ warehouse \in RankWarehouses
    /\ today = MaxDate
    /\ queryArgs \in [query : {"top_sales_rank_improvement"}, days : {1, MaxDate},
                      limit : {1, 2}]
    /\ postgres_results = Unset
    /\ mongodb_results = Unset

NextRank ==
    \/ QueryBenchmark_postgres_query_top_sales_rank_improvement
    \/ QueryBenchmark_mongodb_query_top_sales_rank_improvement

SpecRank == InitRank /\ [][NextRank]_vars
-----------------------------------------------------------------------------
(* Specification of the price-trend queries *)

MaxPoints == 13    \* monthly price points of product A

\* product A (Books) has one price point per month on the same day of the
\* month, for n consecutive months up to the current month; product B has one
\* price point
TrendDays == {10, 17, 20}
TrendToday == {<<2025, 6, 15>>, <<2025, 3, 31>>}
TrendDatesB == {<<2024, 6, 17>>, <<2024, 6, 20>>, <<2025, 6, 10>>}

PriceRow(asin, category, date, price_usd) ==
    [asin |-> asin, source_category |-> category, date |-> date, price_usd |-> price_usd]

MonthlyPoints(now, n, day) ==
    [k \in 1..n |->
        PriceRow("A", "Books",
                 <<MinusMonths(now, k - 1)[1], MinusMonths(now, k - 1)[2], day>>, 10)]

TrendWarehouses(now) ==
    {[products |-> <<[asin |-> "A", category |-> "Books"],
                     [asin |-> "B", category |-> cb]>>,
      price_history |-> MonthlyPoints(now, n, day) \o <<PriceRow("B", cb, db, 20)>>] :
        n \in 0..MaxPoints, day \in TrendDays, cb \in Range(Categories), db \in TrendDatesB}

InitTrend ==
    /\ DQuiet
    /\ RankPlain
    /\ today \in TrendToday
    /\ warehouse \in TrendWarehouses(today)
    /\ queryArgs \in [query : {"price_trend"}, category : {NULL, <<"Books">>},
                      months : {1, 12}]
    /\ postgres_results = Unset
    /\ mongodb_results = Unset

NextTrend ==
    \/ QueryBenchmark_postgres_query_price_trend
    \/ QueryBenchmark_mongodb_query_price_trend

SpecTrend == InitTrend /\ [][NextTrend]_vars
-----------------------------------------------------------------------------
(* Specification of the brand-analysis queries *)

MaxBrandRows == 2   \* rows in products.csv

\* the asin, brand and review_count cells of a products.csv row
BrandCsvRows ==
    [asin : {"A", "B"}, brand : {NaN, <<"Acme">>},
     review_count : {NaN, <<Float(150, 1)>>, <<Float(7, 2)>>}]

InitBrand ==
    /\ DQuiet
    /\ RankPlain
    /\ today = 0
    /\ warehouse \in [products_csv : SeqsUpTo(BrandCsvRows, MaxBrandRows)]
    /\ queryArgs \in [query : {"brand_analysis"}, brand : {NULL, <<"Acme">>}]
    /\ postgres_results = Unset
    /\ mongodb_results = Unset

NextBrand ==
    \/ QueryBenchmark_postgres_query_brand_analysis
    \/ QueryBenchmark_mongodb_query_brand_analysis

SpecBrand == InitBrand /\ [][NextBrand]_vars
-----------------------------------------------------------------------------
(* Specification of DataTransformer.deduplicate *)

MaxRecords == 3    \* records in the list

\* a record: its asin (none, empty, 0 or an ASIN) and its title
Records ==
    [asin : {NULL, <<"">>, IntKey(0), <<"B001">>, <<"B002">>}, title : {"Product", "Duplicate"}]

InitDedup ==
    /\ DQuiet
    /\ csv = [f \in FileNames |-> Missing]
    /\ fkEnforced = TRUE
    /\ PgQuiet
    /\ MgQuiet
    /\ mgIndexes = {}
    /\ BqQuiet
    /\ QQuiet
    /\ MsQuiet
    /\ data \in {Returned(items) : items \in SeqsUpTo(Records, MaxRecords)}
    /\ uniqueRecords = Unset
    /\ uniqueAgain = Unset

NextDedup ==
    \/ DataTransformer_deduplicate
    \/ DataTransformer_deduplicate_again

SpecDedup == InitDedup /\ [][NextDedup]_vars
-----------------------------------------------------------------------------
(* Specification of the storage-size measurement *)

InitStorage ==
    /\ DQuiet
    /\ csv = [f \in FileNames |-> Missing]
    /\ fkEnforced = TRUE
    /\ PgQuiet
    /\ MgQuiet
    /\ mgIndexes = {}
    /\ BqQuiet
    /\ QQuiet
    /\ TQuiet
    /\ storeEmpty \in [Stores -> BOOLEAN]
    /\ msPc = "idle"
    /\ msResults = Unset
    /\ msConn = "none"
    /\ msExc = "none"
    /\ msLog = <<>>

NextStorage ==
    \/ BenchmarkDashboard_measure_storage_size
    \/ BenchmarkDashboard_measure_storage_size_postgres
    \/ BenchmarkDashboard_measure_storage_size_mongodb
    \/ BenchmarkDashboard_measure_storage_size_return

SpecStorage == InitStorage /\ [][NextStorage]_vars

-----------------------------------------------------------------------------
(* Specification of the benchmark suite *)

InitDash ==
    /\ csv = [f \in FileNames |-> Missing]
    /\ fkEnforced = TRUE
    /\ PgQuiet
    /\ MgQuiet
    /\ mgIndexes = {}
    /\ BqQuiet
    /\ QQuiet
    /\ TQuiet
    /\ storeEmpty \in [Stores -> BOOLEAN]
    /\ msPc = "idle"
    /\ msResults = Unset
    /\ msConn = "none"
    /\ msExc = "none"
    /\ msLog = <<>>
    /\ DInit
    /\ skip_load \in BOOLEAN
    /\ dbPc = "idle"

NextDash ==
    \/ BenchmarkDashboard_run_full_benchmark
    \/ BenchmarkDashboard_measure_load_performance
    \/ BenchmarkDashboard_measure_query_performance
    \/ BenchmarkDashboard_run_full_benchmark_measure_storage_size
    \/ BenchmarkDashboard_run_full_benchmark_storage_size
    \/ BenchmarkDashboard_generate_visualization
    \/ BenchmarkDashboard_save_results
    \/ BenchmarkDashboard_run_full_benchmark_return

SpecDash == InitDash /\ [][NextDash]_vars

-----------------------------------------------------------------------------
(* Specification of generate_visualization as a function of self.results *)

\* the timings of one query on one store: one iteration that took no
\* measurable time, took a tick, or failed
ChartTimes == {<<0>>, <<1>>, <<inf>>}

InitChart ==
    /\ csv = [f \in FileNames |-> Missing]
    /\ fkEnforced = TRUE
    /\ PgQuiet
    /\ MgQuiet
    /\ mgIndexes = {}
    /\ BqQuiet
    /\ QQuiet
    /\ TQuiet
    /\ MsQuiet
    /\ skip_load = TRUE
    /\ \E lp \in {Empty, measure_load_performance(TRUE, "ok", "ok"),
                   measure_load_performance(FALSE, "ok", "raised")},
          qp \in {<<>>} \cup QueryResultLists(ChartTimes) :
          self_results = [load_performance |-> lp, query_performance |-> qp,
                          storage_size |-> Empty]
    /\ chart = Unset
    /\ saved = Unset
    /\ dbPc = "visualization"
    /\ dbExc = "none"
    /\ dbLog = <<>>

NextChart == BenchmarkDashboard_generate_visualization

SpecChart == InitChart /\ [][NextChart]_vars

-----------------------------------------------------------------------------
(* Properties of the PostgreSQL loader (checked under SpecPg) *)

PgLoadSteps == <<"load_products", "load_price_history", "load_sales_rank_history",
                 "load_product_metrics">>
PgStepOrder == <<"connect">> \o PgLoadSteps \o <<"verify_data_integrity">>

\* the steps of the current run, in the order they were entered
PgSteps == Project(pgLog, Range(PgStepOrder))
PgLoadsEntered == Project(pgLog, Range(PgLoadSteps))

PgFileOf == [products |-> PRODUCTS_CSV, price_history |-> PRICE_CSV,
             sales_rank_history |-> RANK_CSV, product_metrics |-> METRICS_CSV]

PgRunEnded == pgPc = "idle" /\ pgRun > 0

\* C1: the steps of a run are entered in the fixed order connect, products,
\* price history, sales-rank history, metrics, verify; and a copy into
\* price_history, sales_rank_history or product_metrics happens only after
\* this run's products copy went through and was committed.
C1_ProductsCommittedBeforeHistory ==
    /\ IsPrefix(PgSteps, PgStepOrder)
    /\ \A i \in DOMAIN pgLog :
         (\E t \in HistoryTables : pgLog[i] = "copy:" \o t /\ csv[PgFileOf[t]] # <<>>)
         => \E j, k \in 1..(i-1) :
              j < k /\ pgLog[j] = "copy:products" /\ pgLog[k] = "commit:products"

\* C7: a products copy that failed ends the run with that error: the error
\* leaves load_products, no later load step is entered, the run raises it.
C7_FailedProductsCopyAborts ==
    ("copy_failed:products" \in Range(pgLog) /\ pgPc # "load_products_finally")
    => /\ pgExc = "IntegrityError"
       /\ PgLoadsEntered = <<"load_products">>
       /\ pgPc \in {"except", "finally", "idle"}


RequiredTables == {"products", "price_history", "sales_rank_history"}
PgStepOf == [products |-> "load_products", price_history |-> "load_price_history",
             sales_rank_history |-> "load_sales_rank_history",
             product_metrics |-> "load_product_metrics"]

SomeRequiredFileMissing == \E t \in RequiredTables : ~FileExists(PgFileOf[t])

\* the last load step the run entered is the one that reads table t's file
LastLoadEntered(t) ==
    PgLoadsEntered # <<>> /\ PgLoadsEntered[Len(PgLoadsEntered)] = PgStepOf[t]

\* C5 as stated: with a required file missing, every run ends by raising
\* FileNotFoundError from the step of a missing file, with no later load
\* step, no integrity pass, a rollback and a closed connection.
C5_MissingRequiredFileRaisesFileNotFound ==
    (PgRunEnded /\ SomeRequiredFileMissing)
    => /\ pgExc = "FileNotFoundError"
       /\ \E t \in RequiredTables : ~FileExists(PgFileOf[t]) /\ LastLoadEntered(t)
       /\ "verify_data_integrity" \notin Range(pgLog)
       /\ "rollback" \in Range(pgLog)
       /\ pgConn = "closed"

\* C5 amended: with a required file missing, every run raises and runs no
\* integrity pass; a run that connected rolls back and closes the connection;
\* and a run that enters the load step of a missing file gets
\* FileNotFoundError from it and enters no later load step.
C5_MissingRequiredFileAborts ==
    (PgRunEnded /\ SomeRequiredFileMissing)
    => /\ pgExc # "none"
       /\ ~IsSet(pgResult)
       /\ "verify_data_integrity" \notin Range(pgLog)
       /\ "connect" \in Range(pgLog)
          => /\ "rollback" \in Range(pgLog)
             /\ pgLog[Len(pgLog)] = "close"
             /\ pgConn = "closed"
       /\ \A t \in RequiredTables :
            (~FileExists(PgFileOf[t]) /\ PgStepOf[t] \in Range(pgLog))
            => /\ pgExc = "FileNotFoundError"
               /\ LastLoadEntered(t)
               /\ "copy:" \o t \notin Range(pgLog)

\* a run that copied and committed products, then found price_history.csv missing
C5_Witness ==
    /\ PgRunEnded
    /\ ~FileExists(PRICE_CSV)
    /\ pgExc = "FileNotFoundError"
    /\ "commit:products" \in Range(pgLog)
    /\ pgDb["products"] # <<>>
    /\ pgConn = "closed"

\* C8: a load_product_metrics call that finds product_metrics.csv missing
\* copies nothing and returns 0, and the run goes on to the integrity pass
\* and returns normally with product_metrics_count = 0.
C8_MissingMetricsSkipped ==
    ("load_product_metrics" \in Range(pgLog) /\ ~FileExists(METRICS_CSV))
    => /\ "copy:product_metrics" \notin Range(pgLog)
       /\ "copy_failed:product_metrics" \notin Range(pgLog)
       /\ Visible("product_metrics") = <<>>
       /\ "product_metrics" \in DOMAIN pgCounts /\ pgCounts["product_metrics"] = 0
       /\ pgExc = "none"
       /\ pgPc \in {"verify_data_integrity", "return", "finally", "idle"}
       /\ pgPc # "verify_data_integrity" => "verify_data_integrity" \in Range(pgLog)
       /\ pgPc \in {"finally", "idle"}
          => IsSet(pgResult) /\ pgResult.product_metrics_count = 0

C8_Witness ==
    /\ PgReturned
    /\ ~FileExists(METRICS_CSV)
    /\ "load_product_metrics" \in Range(pgLog)
    /\ pgResult.product_metrics_count = 0
    /\ pgResult.products_count > 0

\* rows of table t whose asin is the asin of no products row
Orphans(t) == {i \in DOMAIN pgDb[t] : pgDb[t][i] \notin Range(pgDb["products"])}

\* C9: the orphan counts of verify_data_integrity are, per history table, the
\* number of rows whose ASIN matches no products row; whatever the counts,
\* verify_data_integrity returns its statistics and the run returns its
\* result, without an exception and without a rollback.
C9_OrphansCountedAndOnlyWarned ==
    IsSet(pgStats)
    => /\ pgStats.orphaned_price_history = Cardinality(Orphans("price_history"))
       /\ pgStats.orphaned_sales_rank_history = Cardinality(Orphans("sales_rank_history"))
       /\ pgStats.orphaned_product_metrics = Cardinality(Orphans("product_metrics"))
       /\ pgExc = "none"
       /\ "rollback" \notin Range(pgLog)
       /\ pgPc \in {"return", "finally", "idle"}
       /\ pgPc \in {"finally", "idle"} => IsSet(pgResult) /\ pgResult.stats = pgStats

\* a run that returned statistics reporting orphaned rows
C9_Witness ==
    /\ PgReturned
    /\ pgResult.stats.orphaned_price_history > 0
    /\ pgResult.stats.orphaned_price_history < pgResult.stats.price_history_count
    /\ "warning:orphaned_price_history" \in Range(pgLog)

-----------------------------------------------------------------------------
(* Properties of the MongoDB loader (checked under SpecMongo) *)

\* positions in the current run's log of the calls of one operation
MgEvents(op) == {i \in DOMAIN mgLog : mgLog[i].op = op}
InsertCalls == MgEvents("insert_many")
FailedInserts == {i \in InsertCalls : ~mgLog[i].ok}
CreatedIndexes == {i \in MgEvents("create_index") : mgLog[i].ok}
LoadProductsReturned == MgEvents("load_products_return") # {}

\* the asin the loader reads from a cell, and the rows of products.csv that
\* carry one
AsinOf(cell) == Strip(Str(cell))
AsinRows == IF FileExists(PRODUCTS_CSV)
            THEN {i \in DOMAIN csv[PRODUCTS_CSV] : AsinOf(csv[PRODUCTS_CSV][i]) # <<>>}
            ELSE {}
DocsWithAsin(asin) == {k \in DOMAIN mgColl : mgColl[k].asin = asin}

\* the collection held no document when the current run began
CollEmptyAtStart == \A k \in DOMAIN mgColl : mgColl[k].created_at = mgRun

\* C2 (as stated): when insert_many raises for a batch, full or final, the
\* error is logged, the buffer is cleared, the batch is never submitted again,
\* every following batch is still submitted, and load_products returns
\* without raising.
C2_FailedBatchLoggedClearedSkipped ==
    /\ \A i \in FailedInserts :
          /\ i < Len(mgLog) /\ mgLog[i + 1].op = "logger.error"
          /\ Range(mgLog[i].rows) \cap Range(RowsOf(documents_to_insert)) = {}
          /\ \A j \in InsertCalls \ {i} : Range(mgLog[j].rows) \cap Range(mgLog[i].rows) = {}
          /\ mgExc # "none" => LoadProductsReturned
          /\ mgPc \notin {"load_products_rows", "load_products_return"} => LoadProductsReturned
    /\ FailedInserts # {} /\ LoadProductsReturned =>
          \A r \in AsinRows : \E j \in InsertCalls : r \in Range(mgLog[j].rows)

\* C2 (amended): when insert_many raises for a batch, the error is logged,
\* the batch is never submitted again, every following batch is still
\* submitted, and load_products returns without raising; the buffer is
\* cleared after a failed full batch, while a failed final batch stays in the
\* buffer, untouched, until load_products returns.
C2_FailedBatchLoggedSkipped ==
    /\ \A i \in FailedInserts :
          /\ i < Len(mgLog) /\ mgLog[i + 1].op = "logger.error"
          /\ mgLog[i].name = "batch" =>
                Range(mgLog[i].rows) \cap Range(RowsOf(documents_to_insert)) = {}
          /\ mgLog[i].name = "final" =>
                /\ mgPc = "load_products_return" => RowsOf(documents_to_insert) = mgLog[i].rows
                /\ mgPc # "load_products_return" => documents_to_insert = <<>>
          /\ \A j \in InsertCalls \ {i} : Range(mgLog[j].rows) \cap Range(mgLog[i].rows) = {}
          /\ mgExc # "none" => LoadProductsReturned
          /\ mgPc \notin {"load_products_rows", "load_products_return"} => LoadProductsReturned
    /\ FailedInserts # {} /\ LoadProductsReturned =>
          \A r \in AsinRows : \E j \in InsertCalls : r \in Range(mgLog[j].rows)

\* a full batch failed, a later batch was inserted, and load_products returned
C2_Witness ==
    /\ LoadProductsReturned
    /\ mgExc = "none"
    /\ \E i \in FailedInserts : \E j \in InsertCalls :
          j > i /\ mgLog[j].ok /\ mgLog[i].name = "batch"

\* no two rows of products.csv carry the same asin
DistinctAsins ==
    \A i, j \in AsinRows :
        AsinOf(csv[PRODUCTS_CSV][i]) = AsinOf(csv[PRODUCTS_CSV][j]) => i = j

FullyAggregated(d, f) ==
    FileExists(f) /\ \A i \in DOMAIN csv[f] :
        AsinOf(csv[f][i]) # <<>> => i \in Range(DictGet(d, AsinOf(csv[f][i])))

\* C4: load_products starts only after both history CSVs have been fully
\* aggregated into the dictionaries, and no index is created until
\* load_products has issued its last insert batch.
C4_HistoryThenProductsThenIndexes ==
    /\ \A i \in MgEvents("load_products") :
          /\ \E j \in MgEvents("load_price_history") : j < i /\ mgLog[j].ok
          /\ \E j \in MgEvents("load_sales_rank_history") : j < i /\ mgLog[j].ok
    /\ mgPc \in {"load_products", "load_products_rows"} =>
          /\ FullyAggregated(price_history_dict, PRICE_CSV)
          /\ FullyAggregated(sales_rank_history_dict, RANK_CSV)
    /\ \A i \in MgEvents("create_index") :
          /\ \A j \in InsertCalls : j < i
          /\ \E j \in MgEvents("load_products_return") : j < i
    /\ mgPc \in {"load_price_history", "load_sales_rank_history", "load_products",
                 "load_products_rows", "load_products_return"} =>
          MgEvents("create_index") = {}

\* a run that aggregated history rows, inserted a batch and created an index
C4_Witness ==
    /\ MgReturned
    /\ csv[PRICE_CSV] # <<>> /\ csv[RANK_CSV] # <<>>
    /\ InsertCalls # {}
    /\ CreatedIndexes # {}

MongoFiles == {PRICE_CSV, RANK_CSV, PRODUCTS_CSV}

\* C6: if any of the three CSV files is missing, run_full_load raises to its
\* caller, and the run has inserted no document and created no index.
C6_MissingFileRaisesBeforeAnyWrite ==
    (\E f \in MongoFiles : ~FileExists(f)) /\ mgRun > 0 =>
        /\ InsertCalls = {}
        /\ MgEvents("create_index") = {}
        /\ \A k \in DOMAIN mgColl : mgColl[k].created_at # mgRun
        /\ mgPc \notin {"load_products_rows", "load_products_return", "create_indexes",
                        "report"}
        /\ MgRunEnded => MgRaised /\ mgExc = "FileNotFoundError"

\* products.csv alone is missing and the run has raised
C6_Witness ==
    /\ MgRaised
    /\ FileExists(PRICE_CSV) /\ FileExists(RANK_CSV) /\ ~FileExists(PRODUCTS_CSV)
    /\ csv[PRICE_CSV] # <<>>

-----------------------------------------------------------------------------
(* Properties of the query benchmark (checked under SpecBench) *)

\* C10: a query function that raises inside benchmark_query never propagates
\* its exception: the iteration is recorded as an infinite timing, so the
\* store's reported time is infinite; the remaining iterations and the other
\* store's query still run; a result record is returned; and
\* run_all_benchmarks still benchmarks the remaining queries and returns
\* three result records.
C10_FailedQueryRecordedAsInfinite ==
    /\ bqFailed # {} => bqExc = "none"
    /\ bqPc = "benchmark_query" =>
          /\ Len(postgres_times) = bqCalls[bqQuery]["postgres"]
          /\ Len(mongodb_times) = bqCalls[bqQuery]["mongodb"]
          /\ <<bqQuery, "postgres">> \in bqFailed <=> inf \in Range(postgres_times)
          /\ <<bqQuery, "mongodb">> \in bqFailed <=> inf \in Range(mongodb_times)
    /\ \A q \in DOMAIN results :
          /\ results[q].query_name = QueryNames[q]
          /\ <<q, "postgres">> \in bqFailed => IsInf(results[q].postgres_time)
          /\ <<q, "mongodb">> \in bqFailed => IsInf(results[q].mongodb_time)
          /\ bqCalls[q]["postgres"] = iterations
          /\ bqCalls[q]["mongodb"] = iterations
    /\ bqFailed # {} /\ bqPc \notin {"benchmark_query", "summary"} =>
          /\ Len(results) = Len(QueryNames)
          /\ bqPc = "done" => bqReturned = results

\* the first query failed on PostgreSQL in a run of two iterations, MongoDB
\* answered it, and the run returned its three records
C10_Witness ==
    /\ BqReturned
    /\ iterations = 2
    /\ <<1, "postgres">> \in bqFailed
    /\ Len(bqReturned) = 3
    /\ IsInf(bqReturned[1].postgres_time)
    /\ ~IsInf(bqReturned[1].mongodb_time)
    /\ bqReturned[1].faster = "MongoDB"

-----------------------------------------------------------------------------
(* Properties of the sales-rank improvement queries (checked under SpecRank) *)

BothReturned == IsSet(postgres_results) /\ IsSet(mongodb_results)

\* C11: on identical data the document-store sales-rank improvement query
\* returns the rows of the relational LAG query: each in-window observation
\* against the product's preceding one, only those with
\* rank_change = current - previous < 0, most negative first, cut to limit.
\* Rows of equal rank_change have no fixed order, so each store's list has to
\* be a list the other store can return.
C11_RankImprovementRowsEqual ==
    BothReturned =>
        /\ ListOf(mongodb_results) \in
               postgres_query_top_sales_rank_improvement(queryArgs.days, queryArgs.limit)
        /\ ListOf(postgres_results) \in
               mongodb_query_top_sales_rank_improvement(queryArgs.days, queryArgs.limit)

-----------------------------------------------------------------------------
(* Properties of the price-trend queries (checked under SpecTrend) *)

\* C12: for the same arguments (category, months) the two price-trend
\* queries select the same price-history points (same lower bound of the date
\* window, same category filter) and form the same (category, month) groups,
\* so they return one row per group with equal product_count, min_price and
\* max_price.
C12_PriceTrendRowsEqual ==
    BothReturned =>
        /\ postgres_start_date(queryArgs.months) = mongodb_start_date(queryArgs.months)
        /\ ListOf(postgres_results) = ListOf(mongodb_results)

\* C13: a price-trend query for a single category over 12 months returns at
\* most 12 grouped rows per store, whatever the price history and the current
\* date.
C13_AtMostTwelveRows ==
    (HasCategory(queryArgs.category) /\ queryArgs.months = 12) =>
        /\ IsSet(postgres_results) => Len(ListOf(postgres_results)) <= 12
        /\ IsSet(mongodb_results) => Len(ListOf(mongodb_results)) <= 12

-----------------------------------------------------------------------------
(* Properties of the brand-analysis queries (checked under SpecBrand) *)

NumEq(x, y) == (x = NULL /\ y = NULL) \/ (x # NULL /\ y # NULL /\ FloatEq(Val(x), Val(y)))

SameBrandRow(p, m) ==
    /\ p.brand = m.brand
    /\ p.asin = m.asin
    /\ NumEq(p.avg_review_count, m.avg_review_count)
    /\ NumEq(p.max_review_count, m.max_review_count)
    /\ p.metric_count = m.metric_count

\* C14: for any products.csv loaded into both stores by the two CSV loaders,
\* the two brand-analysis queries return the same set of (brand, asin) rows
\* with equal avg_review_count, max_review_count and metric_count in every row.
C14_BrandRowsEqual ==
    BothReturned =>
        /\ \A p \in ListOf(postgres_results) :
               \E m \in ListOf(mongodb_results) : SameBrandRow(p, m)
        /\ \A m \in ListOf(mongodb_results) :
               \E p \in ListOf(postgres_results) : SameBrandRow(p, m)

-----------------------------------------------------------------------------
(* Properties of DataTransformer.deduplicate (checked under SpecDedup) *)

\* the positions of data holding the first record of a key
FirstOfKey ==
    {i \in DOMAIN ListOf(data) :
        /\ Truthy(Get(ListOf(data)[i]))
        /\ \A j \in 1..(i - 1) : Get(ListOf(data)[j]) # Get(ListOf(data)[i])}

\* the records of items at the positions in P, in the order of items
RECURSIVE Subsequence(_, _)
Subsequence(items, P) ==
    IF items = <<>> THEN <<>>
    ELSE Subsequence(SubSeq(items, 1, Len(items) - 1), P)
         \o (IF Len(items) \in P THEN <<items[Len(items)]>> ELSE <<>>)

\* C15: deduplicate keyed by ASIN keeps first-seen order and drops later
\* duplicates: the result is the subsequence of the input that holds the
\* first record of each distinct key, and no key occurs twice in it
\* ([B001, B002, B001] gives [B001, B002]). A key is an asin that is set and
\* not empty.
C15_DeduplicateKeepsFirstOfEachKey ==
    IsSet(uniqueRecords) =>
        /\ ListOf(uniqueRecords) = Subsequence(ListOf(data), FirstOfKey)
        /\ \A i, j \in DOMAIN ListOf(uniqueRecords) :
               i # j => Get(ListOf(uniqueRecords)[i]) # Get(ListOf(uniqueRecords)[j])

\* the list of the test: B001, B002 and B001 again, deduplicated
C15_Witness ==
    /\ IsSet(uniqueRecords)
    /\ Len(ListOf(data)) = 3
    /\ Get(ListOf(data)[1]) = <<"B001">>
    /\ Get(ListOf(data)[2]) = <<"B002">>
    /\ Get(ListOf(data)[3]) = <<"B001">>
    /\ ListOf(data)[3] # ListOf(data)[1]
    /\ ListOf(uniqueRecords) = <<ListOf(data)[1], ListOf(data)[2]>>

-----------------------------------------------------------------------------
(* Properties of benchmark_query's averages (checked under SpecBench) *)

\* the record that the benchmark_query call ending in this step returns
ReturnedRecord == results'[Len(results')]

\* the total of finite durations
Total(times) ==
    Cardinality({p \in (DOMAIN times) \X (1..SetMax(Range(times) \cup {0})) :
                    p[2] <= times[p[1]]})

\* m is the arithmetic mean of the recorded durations (infinite as soon as
\* one of them is, and when there is none)
IsMean(m, times) ==
    IF times = <<>> \/ inf \in Range(times) THEN IsInf(m)
    ELSE ~IsInf(m) /\ m.num * Len(times) = Total(times) * m.den

OneDurationPerIteration ==
    /\ Len(postgres_times) = iterations
    /\ Len(mongodb_times) = iterations
    /\ bqCalls[bqQuery]["postgres"] = iterations
    /\ bqCalls[bqQuery]["mongodb"] = iterations

\* C16 as claimed: benchmark_query over N iterations returns an iteration
\* count equal to N and, for each store, the arithmetic mean of the N
\* recorded durations, one duration being recorded per iteration per store.
C16_IterationCountAndMean ==
    [][QueryBenchmark_benchmark_query_return =>
          /\ "iterations" \in DOMAIN ReturnedRecord
          /\ ReturnedRecord.iterations = iterations
          /\ OneDurationPerIteration
          /\ IsMean(ReturnedRecord.postgres_time, postgres_times)
          /\ IsMean(ReturnedRecord.mongodb_time, mongodb_times)]_vars

\* C16 amended: benchmark_query over N iterations records one duration per
\* iteration per store (the elapsed time, or infinity when the query raised)
\* and returns for each store the arithmetic mean of the N recorded durations
\* (infinity when N = 0); the returned record holds no iteration count.
C16_MeanOfRecordedDurations ==
    [][QueryBenchmark_benchmark_query_return =>
          /\ "iterations" \notin DOMAIN ReturnedRecord
          /\ OneDurationPerIteration
          /\ IsMean(ReturnedRecord.postgres_time, postgres_times)
          /\ IsMean(ReturnedRecord.mongodb_time, mongodb_times)]_vars

\* a run of two iterations whose first query took 0 and 1 on PostgreSQL and
\* 1 and 1 on MongoDB
C16_Witness ==
    /\ iterations = 2
    /\ Len(results) >= 1
    /\ results[1].postgres_time = Float(1, 2)
    /\ results[1].mongodb_time = Float(2, 2)

-----------------------------------------------------------------------------
(* Properties of measure_storage_size (checked under SpecStorage) *)

SizeKey(store) == IF store = "postgres" THEN "postgres_size_mb" ELSE "mongodb_size_mb"

MsMeasured(store) == \E i \in DOMAIN msLog : msLog[i][1] = store
MsFailed(store) == \E i \in DOMAIN msLog : msLog[i][1] = store /\ msLog[i][2] # "ok"

\* never raises, a non-negative figure for each store, 0 for a store whose
\* measurement failed, and the other store still measured
MsNeverRaisesAndFailureIsZero ==
    /\ msExc = "none"
    /\ msPc = "done" =>
          \A store \in Stores :
             /\ MsMeasured(store)
             /\ ~IsInf(msResults[SizeKey(store)])
             /\ msResults[SizeKey(store)].num >= 0
             /\ MsFailed(store) => msResults[SizeKey(store)] = Float(0, 1)

\* C17 as claimed: measure_storage_size never raises and returns a
\* non-negative megabyte figure for each store; when a store is empty or its
\* measurement fails, that store's figure is 0 and the other store is still
\* measured.
C17_StorageSizeZeroWhenEmptyOrFailed ==
    /\ MsNeverRaisesAndFailureIsZero
    /\ msPc = "done" =>
          \A store \in Stores :
             storeEmpty[store] => FloatEq(msResults[SizeKey(store)], Float(0, 1))

\* C17 amended: measure_storage_size never raises and returns a non-negative
\* megabyte figure for each store; when a store's measurement fails, that
\* store's figure is 0 and the other store is still measured; a store that
\* is measured gets the size the server reports, empty or not.
C17_StorageSizeZeroWhenFailed ==
    /\ MsNeverRaisesAndFailureIsZero
    /\ msPc = "done" =>
          /\ ~MsFailed("postgres") =>
                \E b \in PgSizeBytes(storeEmpty["postgres"]) :
                    msResults.postgres_size_mb = Float(b, BytesPerMb)
          /\ ~MsFailed("mongodb") =>
                \E b \in MongoSizeBytes(storeEmpty["mongodb"]) :
                    msResults.mongodb_size_mb = Float(b, BytesPerMb)

\* the PostgreSQL measurement failed, MongoDB was still measured and is not
\* empty
C17_Witness ==
    /\ msPc = "done"
    /\ MsFailed("postgres")
    /\ ~MsFailed("mongodb")
    /\ ~storeEmpty["mongodb"]
    /\ msResults.postgres_size_mb = Float(0, 1)
    /\ msResults.mongodb_size_mb.num > 0

-----------------------------------------------------------------------------
(* Properties of the connections (checked under SpecBench) *)

\* C18: every database connection opened by a loader or benchmark object
\* during a run is closed when that run ends, whether the run returns or
\* raises: self.conn of PostgresCSVLoader, self.postgres_conn and
\* self.mongo_db of QueryBenchmark. (MongoCSVLoader holds the handle that
\* its constructor made and has no method that closes it.)
C18_ConnectionsClosedAtRunEnd ==
    /\ PgRunEnded => pgConn # "open"
    /\ bqPc = "done" => postgres_conn # "open" /\ mongo_db # "open"

-----------------------------------------------------------------------------
(* Properties of a repeated MongoDB load (checked under SpecMongo) *)

\* products.csv has distinct ASINs and the collection holds exactly one
\* document for each of them, and no other document
OneDocumentPerAsin ==
    /\ DistinctAsins
    /\ Len(mgColl) = Cardinality(AsinRows)
    /\ \A r \in AsinRows : Cardinality(DocsWithAsin(AsinOf(csv[PRODUCTS_CSV][r]))) = 1

\* this step calls insert_many
InsertManyCalled ==
    /\ Len(mgLog') > Len(mgLog)
    /\ mgLog'[Len(mgLog) + 1].op = "insert_many"

\* an insert_many call of the second run, made while the unique index of the
\* first run exists and the collection holds one document per ASIN, raises
\* and leaves the collection as it is
SecondRunInsertRejected ==
    (mgRun = 2 /\ UniqueAsin /\ OneDocumentPerAsin /\ InsertManyCalled) =>
        /\ ~mgLog'[Len(mgLog) + 1].ok
        /\ mgColl' = mgColl

-----------------------------------------------------------------------------
(* Properties of the embedded history arrays (checked under SpecMongo) *)

\* the rows of file f whose stripped asin is asin, in file order
RECURSIVE MatchingRows(_, _, _)
MatchingRows(f, asin, i) ==
    IF ~FileExists(f) \/ i > Len(csv[f]) THEN <<>>
    ELSE IF Strip(Str(csv[f][i])) = asin
         THEN <<i>> \o MatchingRows(f, asin, i + 1)
         ELSE MatchingRows(f, asin, i + 1)

\* the documents load_products has built: those waiting in the batch and those
\* stored in the collection
EmittedDocs == Range(documents_to_insert) \cup Range(mgColl)

\* C20: every product document built by load_products embeds in price_history
\* exactly the rows of price_history.csv whose stripped ASIN is the document's
\* ASIN, in file order, and in sales_rank_history exactly the matching rows of
\* sales_rank_history.csv in file order; a product without history rows has
\* two empty arrays.
C20_EmbeddedHistoryIsMatchingRowsInOrder ==
    \A d \in EmittedDocs :
        /\ d.price_history = MatchingRows(PRICE_CSV, d.asin, 1)
        /\ d.sales_rank_history = MatchingRows(RANK_CSV, d.asin, 1)

\* a load has stored product B with its first and third rank rows, in that
\* order, and no price row, and product A with the second rank row and the
\* price row whose asin cell is padded
C20_Witness ==
    /\ MgReturned
    /\ \E d \in Range(mgColl) :
           /\ d.asin = <<"B">>
           /\ d.price_history = <<>>
           /\ d.sales_rank_history = <<1, 3>>
    /\ \E d \in Range(mgColl) :
           /\ d.asin = <<"A">>
           /\ d.price_history = <<1>>
           /\ d.sales_rank_history = <<2>>

-----------------------------------------------------------------------------
(* Properties of the history dictionaries (checked under SpecMongo) *)

\* C21: whenever load_products has returned, price_history_dict and
\* sales_rank_history_dict are both empty, also when insert batches failed.
C21_DictionariesEmptyAfterLoadProducts ==
    LoadProductsReturned =>
        /\ price_history_dict = <<>>
        /\ sales_rank_history_dict = <<>>

\* load_products has returned after a failed insert batch, both history
\* files carried a row that was aggregated, and both dictionaries are empty
C21_Witness ==
    /\ LoadProductsReturned
    /\ FailedInserts # {}
    /\ \E i \in DOMAIN csv[PRICE_CSV] : ~Skipped(csv[PRICE_CSV][i])
    /\ \E i \in DOMAIN csv[RANK_CSV] : ~Skipped(csv[RANK_CSV][i])
    /\ price_history_dict = <<>>
    /\ sales_rank_history_dict = <<>>

-----------------------------------------------------------------------------
(* Properties of create_indexes (checked under SpecMongo) *)

\* the index names of the create_index calls of this run, in call order
CreateIndexCalls ==
    LET calls == SelectSeq(mgLog, LAMBDA e : e.op = "create_index")
    IN  [k \in DOMAIN calls |-> calls[k].name]

\* every create_index call that failed is followed by its warning
FailedCreationsWarned ==
    \A i \in MgEvents("create_index") :
        ~mgLog[i].ok =>
            /\ i + 1 \in DOMAIN mgLog
            /\ mgLog[i + 1].op = "logger.warning"
            /\ mgLog[i + 1].name = mgLog[i].name

\* a call of create_indexes returns to run_full_load without an exception
CreateIndexesReturns ==
    mgPc = "create_indexes" => (mgPc' = "report" /\ mgExc' = mgExc)

\* C22: create_indexes attempts the five index creations (asin,
\* price_history.date, sales_rank_history.date, brand, category) on every
\* call; a creation that fails is logged as a warning and the remaining
\* creations are still attempted; create_indexes never raises.
C22_AllFiveIndexCreationsAttempted ==
    /\ [](mgPc \in {"report", "idle", "except"} /\ LoadProductsReturned =>
            CreateIndexCalls = IndexNames /\ FailedCreationsWarned)
    /\ [][CreateIndexesReturns]_vars

\* create_indexes has returned: the creation of the unique asin index failed
\* and the four creations after it succeeded
C22_Witness ==
    /\ mgPc = "report"
    /\ mgExc = "none"
    /\ \E i \in MgEvents("create_index") : mgLog[i].name = "asin" /\ ~mgLog[i].ok
    /\ Cardinality(CreatedIndexes) = 4

-----------------------------------------------------------------------------
(* Properties of the insert batches (checked under SpecMongo) *)

\* the products.csv rows of the documents handed to insert_many, call after
\* call, from log entry i on
RECURSIVE SubmittedFrom(_)
SubmittedFrom(i) ==
    IF i > Len(mgLog) THEN <<>>
    ELSE (IF mgLog[i].op = "insert_many" THEN mgLog[i].rows ELSE <<>>) \o SubmittedFrom(i + 1)

\* the products.csv rows a document is built from, in file order
DocumentRows ==
    SelectSeq([i \in DOMAIN csv[PRODUCTS_CSV] |-> i], LAMBDA i : i \in AsinRows)

\* C23: every insert_many call of load_products receives between 1 and
\* batch_size documents, exactly batch_size in every call but possibly the
\* last, and every document built from a products.csv row is submitted in
\* exactly one insert_many call, in file order.
C23_BatchesPartitionDocumentsInOrder ==
    /\ \A i \in InsertCalls :
          /\ Len(mgLog[i].rows) \in 1..BatchSize
          /\ \A j \in InsertCalls : i < j => Len(mgLog[i].rows) = BatchSize
    /\ LoadProductsReturned => SubmittedFrom(1) = DocumentRows

\* load_products has returned after a full batch and a final batch of one
\* document
C23_Witness ==
    /\ LoadProductsReturned
    /\ Cardinality(InsertCalls) = 2
    /\ \E i \in InsertCalls : Len(mgLog[i].rows) = BatchSize
    /\ \E i \in InsertCalls : Len(mgLog[i].rows) = 1
    /\ Len(DocumentRows) = BatchSize + 1
    /\ SubmittedFrom(1) = DocumentRows

-----------------------------------------------------------------------------
(* Properties of run_full_benchmark (checked under SpecDash) *)

DashSteps == <<"load_performance", "query_performance", "storage_size", "visualization",
               "save_results">>

\* the steps run so far, in order
StepsRun == [i \in DOMAIN dbLog |-> dbLog[i].step]

\* the step has left no result: its entry of self.results is empty, no
\* figure was saved, no results file was written
StepResultEmpty(step) ==
    IF step = "visualization" THEN chart = Unset
    ELSE IF step = "save_results" THEN saved = Unset
    ELSE self_results[step] = Empty

\* never raises, and the five steps run in order whatever their outcomes
NeverRaisesAndAllStepsRun ==
    /\ dbExc = "none"
    /\ IsPrefix(StepsRun, DashSteps)
    /\ dbPc = "done" => StepsRun = DashSteps

\* C24: run_full_benchmark never raises; it runs load measurement, query
\* measurement, storage measurement, visualization and result saving in that
\* order; a failure in any one step is logged, leaves that step's result
\* empty and does not prevent any later step from running.
C24_FailedStepLoggedAndEmpty ==
    /\ NeverRaisesAndAllStepsRun
    /\ \A i \in DOMAIN dbLog :
          dbLog[i].outcome # "ok" => dbLog[i].logged /\ StepResultEmpty(dbLog[i].step)

\* the store's load or storage measurement recorded a failure: an infinite
\* load time, a size of 0.0
FailureRecorded(step) ==
    /\ self_results[step] # Empty
    /\ IF step = "load_performance"
       THEN \/ IsInf(self_results[step][1].postgres_load_time)
            \/ IsInf(self_results[step][1].mongodb_load_time)
       ELSE \/ self_results[step][1].postgres_size_mb = Float(0, 1)
            \/ self_results[step][1].mongodb_size_mb = Float(0, 1)

\* C24, amended: run_full_benchmark never raises and runs the five steps in
\* order; a failure in a step is logged and prevents no later step; an
\* exception that reaches run_full_benchmark, and a failed query measurement,
\* leave the step's result empty, while a failure caught inside the load or
\* the storage measurement is recorded in the step's result (infinite load
\* time, size 0.0).
C24_FailedStepLoggedAndEmptyOrRecorded ==
    /\ NeverRaisesAndAllStepsRun
    /\ \A i \in DOMAIN dbLog :
          /\ dbLog[i].outcome # "ok" => dbLog[i].logged
          /\ (\/ dbLog[i].outcome = "raised"
              \/ (dbLog[i].step = "query_performance" /\ dbLog[i].outcome = "failed")) =>
                 StepResultEmpty(dbLog[i].step)
          /\ (dbLog[i].outcome = "failed" /\ dbLog[i].step # "query_performance") =>
                 FailureRecorded(dbLog[i].step)

\* a run has ended in which constructing the MongoDB loader raised, the
\* query measurement failed, a storage measurement failed, the figure could
\* not be saved, and the results were still written
C24_Witness ==
    /\ dbPc = "done"
    /\ dbExc = "none"
    /\ StepsRun = DashSteps
    /\ dbLog[1].outcome = "raised"
    /\ dbLog[2].outcome = "failed"
    /\ dbLog[3].outcome = "failed"
    /\ dbLog[4].outcome = "raised"
    /\ dbLog[5].outcome = "ok"
    /\ self_results.load_performance = Empty
    /\ self_results.query_performance = <<>>
    /\ chart = Unset
    /\ saved # Unset

-----------------------------------------------------------------------------
(* Properties of the per-step commits (checked under SpecPg) *)

\* the step of table t of the current run has copied and committed its rows
StepCommitted(t) ==
    /\ ("copy:" \o t) \in Range(pgLog)
    /\ ("commit:" \o t) \in Range(pgLog)

\* the last rows of table t are the rows of the table's CSV file
HoldsRowsOfFile(t) ==
    LET rows == csv[PgFileOf[t]]
        n == Len(pgDb[t])
    IN  /\ Len(rows) <= n
        /\ SubSeq(pgDb[t], n - Len(rows) + 1, n) = rows

\* C25: each load step of run_full_load commits its own rows, so the
\* rollback of a later step that fails does not remove them: after a run
\* that aborts at the price-history step, the products rows copied by that
\* run are in the products table.
C25_CommittedStepsSurviveLaterRollback ==
    \A t \in PgTables : StepCommitted(t) => HoldsRowsOfFile(t)

\* a run has aborted at the price-history step, whose file is missing, after
\* it copied the rows of products.csv, and the products table holds them
C25_Witness ==
    /\ PgRaised
    /\ pgExc = "FileNotFoundError"
    /\ ~FileExists(PRICE_CSV)
    /\ "copy:products" \in Range(pgLog)
    /\ "rollback" \in Range(pgLog)
    /\ Len(csv[PRODUCTS_CSV]) > 0
    /\ pgDb["products"] = csv[PRODUCTS_CSV]

-----------------------------------------------------------------------------
(* Properties of the embedded history points (checked under SpecMongo) *)

\* the ASINs of the products.csv rows, as the loader reads them
ProductAsins == {AsinOf(csv[PRODUCTS_CSV][r]) : r \in AsinRows}

\* the rows of history file f that the loader aggregates and whose ASIN is
\* the ASIN of no products.csv row
UnmatchedRows(f) ==
    IF ~FileExists(f) THEN {}
    ELSE {i \in DOMAIN csv[f] : ~Skipped(csv[f][i]) /\ AsinOf(csv[f][i]) \notin ProductAsins}

\* the history points of file f embedded in document d, as rows of f
EmbeddedRows(d, f) ==
    Range(IF f = PRICE_CSV THEN d.price_history ELSE d.sales_rank_history)

\* C26: every embedded history point sits in a product document whose ASIN
\* equals the ASIN of the point's CSV row; a history row whose ASIN matches no
\* products.csv row is stored in no document, and is discarded when the
\* dictionaries are cleared: the document store holds no orphaned history
\* point.
C26_NoOrphanedHistoryPoint ==
    \A f \in {PRICE_CSV, RANK_CSV} :
        /\ \A d \in Range(mgColl) :
              /\ \A i \in EmbeddedRows(d, f) : AsinOf(csv[f][i]) = d.asin
              /\ EmbeddedRows(d, f) \cap UnmatchedRows(f) = {}
        /\ LoadProductsReturned =>
              \A i \in UnmatchedRows(f) :
                  /\ AsinOf(csv[f][i]) \notin DOMAIN price_history_dict
                  /\ AsinOf(csv[f][i]) \notin DOMAIN sales_rank_history_dict

\* a load has returned: a document holds a rank point of its own product,
\* and the price row of a product that products.csv does not list is in no
\* document
C26_Witness ==
    /\ MgReturned
    /\ \E d \in Range(mgColl) : d.sales_rank_history # <<>>
    /\ UnmatchedRows(PRICE_CSV) # {}
    /\ \A d \in Range(mgColl) : d.price_history = <<>>

-----------------------------------------------------------------------------
(* Properties of the shared PostgreSQL connection (checked under SpecBench) *)

\* C27: a PostgreSQL query that fails inside benchmark_query affects only
\* its own measurement: the shared connection stays usable, so the later
\* iterations and the later queries of run_all_benchmarks on that connection
\* can still succeed and be timed.
C27_FailedQueryLeavesConnectionUsable ==
    (bqPc = "benchmark_query" /\ postgres_conn = "open" /\ bqFailed # {}) =>
        "ok" \in PostgresOutcomes

-----------------------------------------------------------------------------
(* Properties of the query-latency chart (checked under SpecChart) *)

\* C28: in the query-latency chart of generate_visualization every query
\* measurement that failed (infinite timing), of either store, carries a
\* 'Failed' marker instead of a time, and no measurement that succeeded is
\* marked as failed.
C28_FailedMeasurementsMarkedFailed ==
    chart # Unset =>
        \A i \in DOMAIN self_results.query_performance :
            /\ chart[1].query[i].postgres = "Failed"
                   <=> IsInf(self_results.query_performance[i].postgres_time)
            /\ chart[1].query[i].mongodb = "Failed"
                   <=> IsInf(self_results.query_performance[i].mongodb_time)

-----------------------------------------------------------------------------
(* Properties of benchmark_query's verdict (checked under SpecBench) *)

\* how the mean x stands to the mean y: an infinite mean is above every
\* finite one and equal to an infinite one
Compared(x, y) ==
    IF IsInf(x) /\ IsInf(y) THEN "equal"
    ELSE IF IsInf(y) THEN "smaller"
    ELSE IF IsInf(x) THEN "larger"
    ELSE IF x.num * y.den < y.num * x.den THEN "smaller"
    ELSE IF x.num * y.den > y.num * x.den THEN "larger"
    ELSE "equal"

\* some timing of query q on the store failed
QueryFailed(q, store) == <<q, store>> \in bqFailed

\* C29: benchmark_query reports as faster the store with the strictly
\* smaller mean time, and reports "Tie" with speedup 1.0 exactly when the two
\* means are equal; when the query of exactly one store failed, the store
\* that succeeded is reported as faster.
C29_FasterIsStrictlySmallerMean ==
    \A q \in DOMAIN results :
        LET r == results[q]
            c == Compared(r.postgres_time, r.mongodb_time)
        IN  /\ r.faster = "PostgreSQL" <=> c = "smaller"
            /\ r.faster = "MongoDB" <=> c = "larger"
            /\ r.faster = "Tie" <=> c = "equal"
            /\ r.faster = "Tie" => r.speedup = Float(1, 1)
            /\ (QueryFailed(q, "postgres") /\ ~QueryFailed(q, "mongodb")) => r.faster = "MongoDB"
            /\ (QueryFailed(q, "mongodb") /\ ~QueryFailed(q, "postgres")) => r.faster = "PostgreSQL"

\* the three verdicts of a suite: the first query failed on MongoDB only and
\* PostgreSQL is faster, the second took both stores the same finite time and
\* is a tie, the third was strictly faster on MongoDB
C29_Witness ==
    /\ Len(results) = 3
    /\ QueryFailed(1, "mongodb") /\ ~QueryFailed(1, "postgres")
    /\ results[1].faster = "PostgreSQL"
    /\ ~IsInf(results[2].postgres_time)
    /\ results[2].faster = "Tie"
    /\ ~IsInf(results[3].postgres_time)
    /\ results[3].faster = "MongoDB"

-----------------------------------------------------------------------------
(* Properties of deduplicate's falsy keys (checked under SpecDedup) *)

\* the key values Python takes as false
FalsyKeys == {NULL, <<"">>, IntKey(0)}

\* C30: deduplicate omits every record whose key field is missing or falsy
\* (None, empty string, 0): no such record is in the result, not even the
\* first one with that key; and deduplicate applied to its own output
\* returns that output unchanged.
C30_FalsyKeysOmittedAndIdempotent ==
    /\ IsSet(uniqueRecords) =>
          /\ \A i \in DOMAIN ListOf(uniqueRecords) :
                 Get(ListOf(uniqueRecords)[i]) \notin FalsyKeys
          /\ \A i \in DOMAIN ListOf(data) :
                 Get(ListOf(data)[i]) \notin FalsyKeys =>
                     \E j \in DOMAIN ListOf(uniqueRecords) :
                         Get(ListOf(uniqueRecords)[j]) = Get(ListOf(data)[i])
    /\ IsSet(uniqueAgain) => uniqueAgain = uniqueRecords

\* a list with a record of key 0, one of key '' and one with an ASIN was
\* deduplicated to the third record alone, and deduplicating that again
\* returned the same list
C30_Witness ==
    /\ IsSet(uniqueAgain)
    /\ Len(ListOf(data)) = 3
    /\ Get(ListOf(data)[1]) = IntKey(0)
    /\ Get(ListOf(data)[2]) = <<"">>
    /\ ListOf(uniqueRecords) = <<ListOf(data)[3]>>
    /\ uniqueAgain = uniqueRecords

=============================================================================
